---- MODULE Spec2Model ----
(***************************************************************************)
(* Model of moria_manager/core/save_parser.py : the file classifier, the   *)
(* container decoder, the field extractors, the entity parsers and the     *)
(* version aggregator (get_worlds_with_versions /                          *)
(* get_characters_with_versions).                                          *)
(*                                                                         *)
(* Representation                                                          *)
(*   - a Python str is a sequence of one-character strings (a sequence of  *)
(*     code points where it comes out of bytes.decode);                    *)
(*   - Python bytes are a sequence of integers 0..255;                     *)
(*   - Optional[T] is a sequence of length 0 (None) or 1 (the value);      *)
(*   - a Path inside the single save directory is its file name;           *)
(*   - a dict is a sequence of records with a unique "key" field, in       *)
(*     insertion order (the order Python dicts iterate in).                *)
(***************************************************************************)
EXTENDS Integers, Sequences, FiniteSets, TLC

(***************************************************************************)
(* Bounds of the model.                                                    *)
(***************************************************************************)
MaxFiles == 2
MaxTime == 2

(***************************************************************************)
(* Python str / bytes helpers.                                             *)
(***************************************************************************)
None == << >>
Some(x) == << x >>

Uppercase == << "A", "B", "C", "D", "E", "F", "G", "H", "I", "J", "K", "L", "M",
                "N", "O", "P", "Q", "R", "S", "T", "U", "V", "W", "X", "Y", "Z" >>
Lowercase == << "a", "b", "c", "d", "e", "f", "g", "h", "i", "j", "k", "l", "m",
                "n", "o", "p", "q", "r", "s", "t", "u", "v", "w", "x", "y", "z" >>
Digits == << "0", "1", "2", "3", "4", "5", "6", "7", "8", "9" >>

\* str.lower() / str.upper() on one character (what re.IGNORECASE compares)
LowerOf == [c \in { Uppercase[i] : i \in 1..26 } |->
               Lowercase[CHOOSE i \in 1..26 : Uppercase[i] = c]]
UpperOf == [c \in { Lowercase[i] : i \in 1..26 } |->
               Uppercase[CHOOSE i \in 1..26 : Lowercase[i] = c]]

lower(c) == IF c \in DOMAIN LowerOf THEN LowerOf[c] ELSE c
upper(c) == IF c \in DOMAIN UpperOf THEN UpperOf[c] ELSE c

lower_str(s) == [i \in 1..Len(s) |-> lower(s[i])]
upper_str(s) == [i \in 1..Len(s) |-> upper(s[i])]

\* regex \d (ASCII digits are the only digits of the modelled alphabet)
is_digit(c) == \E i \in 1..10 : Digits[i] = c
digit_value(c) == (CHOOSE i \in 1..10 : Digits[i] = c) - 1

\* variant: the character class without re.IGNORECASE
is_hex_upper(c) == is_digit(c) \/ c \in {"A", "B", "C", "D", "E", "F"}

\* regex [A-F0-9] under re.IGNORECASE
is_hex_ic(c) == is_digit(c) \/ lower(c) \in {"a", "b", "c", "d", "e", "f"}

\* s[a:b] for 1-based inclusive bounds, empty when b < a
slice(s, a, b) == IF b < a THEN << >> ELSE SubSeq(s, a, b)

\* str.startswith / str.endswith / the "in" operator on strings
startswith(s, p) == Len(s) >= Len(p) /\ slice(s, 1, Len(p)) = p
endswith(s, p) == Len(s) >= Len(p) /\ slice(s, Len(s) - Len(p) + 1, Len(s)) = p
contains(s, p) == \E i \in 1..(Len(s) - Len(p) + 1) : slice(s, i, i + Len(p) - 1) = p

\* position of the first '.', 0 when there is none
first_dot(s) ==
    IF \E i \in 1..Len(s) : s[i] = "."
    THEN CHOOSE i \in 1..Len(s) : s[i] = "." /\ \A j \in 1..(i - 1) : s[j] # "."
    ELSE 0

\* name.split('.') as a sequence of segments
RECURSIVE split_dots(_)
split_dots(s) ==
    IF first_dot(s) = 0 THEN << s >>
    ELSE << slice(s, 1, first_dot(s) - 1) >> \o split_dots(slice(s, first_dot(s) + 1, Len(s)))

\* pathlib PurePath.suffixes
suffixes(name) ==
    IF endswith(name, << "." >>) THEN << >>
    ELSE LET parts == split_dots(name)
         IN  [i \in 1..(Len(parts) - 1) |-> << "." >> \o parts[i + 1]]

(***************************************************************************)
(* Literals of the source.                                                 *)
(***************************************************************************)
WORLD_PREFIX == << "M", "W", "_" >>
CHARACTER_PREFIX == << "M", "C", "_" >>
DotSav == << ".", "s", "a", "v" >>
DotSavDot == << ".", "s", "a", "v", "." >>
DotBak == << ".", "b", "a", "k" >>
DotBad == << ".", "b", "a", "d" >>
DotSavDotFresh == << ".", "s", "a", "v", ".", "f", "r", "e", "s", "h" >>
UnknownWorld == << "U", "n", "k", "n", "o", "w", "n", " ", "W", "o", "r", "l", "d" >>

(***************************************************************************)
(* File classifier: the regular expressions of lines 377-379 / 574-576 and *)
(* the if/elif chain of the directory loop.                                *)
(***************************************************************************)
\* The text a pattern "^(<prefix>[A-F0-9]+)\." captures as group 1, or None.
\* [A-F0-9]+ cannot cross a '.', so group 1 ends right before the first '.'.
pattern_group1(prefix, filename) ==
    LET d == first_dot(filename)
        g == slice(filename, 1, d - 1)
    IN  IF /\ d > 0
           /\ Len(g) > Len(prefix)
           /\ lower_str(slice(g, 1, Len(prefix))) = lower_str(prefix)
           /\ \A i \in (Len(prefix) + 1)..Len(g) : is_hex_ic(g[i])
        THEN Some(g)
        ELSE None

\* what follows group 1 in the file name (starts with the first '.')
pattern_rest(filename) == slice(filename, first_dot(filename), Len(filename))

\* re.compile(r"^(MW_[A-F0-9]+)\.(\d{2})\.bak$", re.IGNORECASE).match
backup_pattern(prefix, filename) ==
    LET g == pattern_group1(prefix, filename)
        r == pattern_rest(filename)
    IN  IF /\ g # None
           /\ Len(r) = 7
           /\ is_digit(r[2]) /\ is_digit(r[3])
           /\ lower_str(slice(r, 4, 7)) = DotBak
        THEN Some([group1 |-> g[1], group2 |-> slice(r, 2, 3)])
        ELSE None

\* re.compile(r"^(MW_[A-F0-9]+)\.sav\.fresh$", re.IGNORECASE).match
fresh_pattern(prefix, filename) ==
    LET g == pattern_group1(prefix, filename)
        r == pattern_rest(filename)
    IN  IF g # None /\ lower_str(r) = DotSavDotFresh
        THEN Some([group1 |-> g[1]])
        ELSE None

\* re.compile(r"^(MW_[A-F0-9]+)\.sav\.(\d{2})\.bad$", re.IGNORECASE).match
bad_pattern(prefix, filename) ==
    LET g == pattern_group1(prefix, filename)
        r == pattern_rest(filename)
    IN  IF /\ g # None
           /\ Len(r) = 11
           /\ lower_str(slice(r, 1, 5)) = DotSavDot
           /\ is_digit(r[6]) /\ is_digit(r[7])
           /\ lower_str(slice(r, 8, 11)) = DotBad
        THEN Some([group1 |-> g[1], group2 |-> slice(r, 6, 7)])
        ELSE None

\* variant: the two digits read in the reverse order
int2_reversed(g) == 10 * digit_value(g[2]) + digit_value(g[1])

\* int() of a two-digit group
int2(g) == 10 * digit_value(g[1]) + digit_value(g[2])

Ignored == [version_type |-> "ignored", base_name |-> << >>, backup_number |-> None]

\* the test of line 403 / 600
is_main_name(filename) == endswith(filename, DotSav) /\ ~contains(filename, DotSavDot)

\* The prefix filter and the if/elif chain of the directory loop: the role,
\* the grouping key and the ordinal the loop gives a file name.
classify(prefix, filename) ==
    IF ~startswith(filename, prefix) THEN Ignored
    ELSE IF is_main_name(filename)
    THEN [version_type |-> "main",
          base_name |-> slice(filename, 1, Len(filename) - 4),
          backup_number |-> None]
    ELSE IF fresh_pattern(prefix, filename) # None
    THEN [version_type |-> "fresh",
          base_name |-> fresh_pattern(prefix, filename)[1].group1,
          backup_number |-> None]
    ELSE IF backup_pattern(prefix, filename) # None
    THEN [version_type |-> "backup",
          base_name |-> backup_pattern(prefix, filename)[1].group1,
          backup_number |-> Some(int2(backup_pattern(prefix, filename)[1].group2))]
    ELSE IF bad_pattern(prefix, filename) # None
    THEN [version_type |-> "bad",
          base_name |-> bad_pattern(prefix, filename)[1].group1,
          backup_number |-> Some(int2(bad_pattern(prefix, filename)[1].group2))]
    ELSE Ignored

\* WorldSaveInfo.base_name / CharacterSaveInfo.base_name on a file name
base_name(name) == IF first_dot(name) > 0 THEN split_dots(name)[1] ELSE name

(***************************************************************************)
(* Python bytes: a sequence of integers 0..255, positions counted from 0   *)
(* as in the source.                                                       *)
(***************************************************************************)
Min(a, b) == IF a < b THEN a ELSE b

\* len(data)
len(data) == Len(data)

\* data[a:b] for 0 <= a, 0 <= b: the slice is clipped at the end of data
bytes_slice(data, a, b) == slice(data, a + 1, Min(b, Len(data)))

\* data[a:]
bytes_from(data, a) == slice(data, a + 1, Len(data))

\* data.find(sub, start): the first position >= start where sub occurs, else -1
find(data, sub, start) ==
    LET hits == { i \in start..(Len(data) - Len(sub)) : bytes_slice(data, i, i + Len(sub)) = sub }
    IN  IF hits = {} THEN -1 ELSE CHOOSE i \in hits : \A j \in hits : i <= j

\* "sub in data"
bytes_in(sub, data) == find(data, sub, 0) # -1

\* data.startswith(sub)
bytes_startswith(data, sub) == bytes_slice(data, 0, Len(sub)) = sub

\* struct.unpack("<i", b)[0]: None stands for struct.error (b is not 4 bytes
\* long); the value is the two's-complement reading of the four bytes
unpack_i(b) ==
    IF Len(b) # 4 THEN None
    ELSE LET low == b[1] + 256 * b[2] + 65536 * b[3]
         IN  Some(IF b[4] < 128 THEN b[4] * 16777216 + low
                  ELSE (b[4] - 256) * 16777216 + low)

\* variant: the four bytes read as a signed integer ("<i"), hi carries the sign
unpack_I_signed(b) ==
    IF Len(b) # 4 THEN None
    ELSE Some([hi |-> IF b[4] < 128 THEN b[3] + 256 * b[4] ELSE b[3] + 256 * (b[4] - 256),
               lo |-> b[1] + 256 * b[2]])

\* struct.unpack("<I", b)[0].  The value hi * 65536 + lo can exceed the
\* integers of the model checker, so it is kept as its two 16-bit halves.
unpack_I(b) ==
    IF Len(b) # 4 THEN None
    ELSE Some([hi |-> b[3] + 256 * b[4], lo |-> b[1] + 256 * b[2]])

(***************************************************************************)
(* zlib.decompress on the zlib streams whose deflate blocks are all stored *)
(* blocks (RFC 1950 header, RFC 1951 section 3.2.4 blocks, Adler-32).      *)
(* None stands for zlib.error.  Data after the end of the stream is        *)
(* ignored, as zlib.decompress does.  The files of the model hold no       *)
(* Huffman-coded blocks.                                                   *)
(***************************************************************************)
ADLER_BASE == 65521
Z_DEFLATED == 8

\* the sum of w(i) * b[i] for i in lo..hi, by halving
RECURSIVE weighted_sum(_, _, _, _)
weighted_sum(b, lo, hi, n) ==
    IF lo > hi THEN 0
    ELSE IF lo = hi THEN (IF n = 0 THEN 1 ELSE n - lo + 1) * b[lo]
    ELSE weighted_sum(b, lo, (lo + hi) \div 2, n) + weighted_sum(b, (lo + hi) \div 2 + 1, hi, n)

\* the Adler-32 checksum as the four bytes that end a zlib stream: s1 is 1
\* plus the sum of the bytes, s2 the sum of the running values of s1
adler32(b) ==
    LET s1 == (1 + weighted_sum(b, 1, Len(b), 0)) % ADLER_BASE
        s2 == (Len(b) + weighted_sum(b, 1, Len(b), Len(b))) % ADLER_BASE
    IN  << s2 \div 256, s2 % 256, s1 \div 256, s1 % 256 >>

zlib_header_ok(s) ==
    /\ Len(s) >= 2
    /\ (s[1] * 256 + s[2]) % 31 = 0          \* FCHECK
    /\ s[1] % 16 = Z_DEFLATED                \* CM
    /\ s[1] \div 16 <= 7                     \* CINFO: window of at most 32K
    /\ (s[2] \div 32) % 2 = 0                \* FDICT: no preset dictionary

\* the blocks of the stream s from position p (1-based), out: inflated so far
RECURSIVE inflate_stored(_, _, _)
inflate_stored(s, p, out) ==
    IF p + 4 > Len(s) THEN None                               \* truncated
    ELSE IF (s[p] \div 2) % 4 # 0 THEN None                   \* BTYPE
    ELSE LET LEN == s[p + 1] + 256 * s[p + 2]
             NLEN == s[p + 3] + 256 * s[p + 4]
             body == out \o bytes_slice(s, p + 4, p + 4 + LEN)
         IN  IF LEN + NLEN # 65535 THEN None                  \* invalid lengths
             ELSE IF p + 4 + LEN > Len(s) THEN None           \* truncated
             ELSE IF s[p] % 2 = 0 THEN inflate_stored(s, p + 5 + LEN, body)
             ELSE IF bytes_slice(s, p + 4 + LEN, p + 8 + LEN) = adler32(body)
             THEN Some(body)
             ELSE None                                        \* data check

zlib_decompress(s) == IF zlib_header_ok(s) THEN inflate_stored(s, 3, << >>) ELSE None

\* zlib.compress(b, 0): one stored block
zlib_stored(b) ==
    << 120, 1, 1, Len(b) % 256, Len(b) \div 256,
       255 - (Len(b) % 256), 255 - (Len(b) \div 256) >> \o b \o adler32(b)

(***************************************************************************)
(* bytes.decode(encoding, errors="replace").  A decoded str is a sequence  *)
(* of code points; REPLACEMENT is U+FFFD.                                  *)
(***************************************************************************)
REPLACEMENT == 65533

is_cont(x) == x >= 128 /\ x <= 191

\* number of continuation bytes a UTF-8 lead byte announces, -1: not a lead
utf8_need(b0) ==
    IF b0 >= 194 /\ b0 <= 223 THEN 1
    ELSE IF b0 >= 224 /\ b0 <= 239 THEN 2
    ELSE IF b0 >= 240 /\ b0 <= 244 THEN 3
    ELSE -1

\* the second byte of a sequence has a narrower range after E0, ED, F0, F4
utf8_second_ok(b0, b1) ==
    IF b0 = 224 THEN b1 >= 160 /\ b1 <= 191
    ELSE IF b0 = 237 THEN b1 >= 128 /\ b1 <= 159
    ELSE IF b0 = 240 THEN b1 >= 144 /\ b1 <= 191
    ELSE IF b0 = 244 THEN b1 >= 128 /\ b1 <= 143
    ELSE is_cont(b1)

\* how many of the announced continuation bytes are there and valid
utf8_have(b, i, need) ==
    IF i + 1 > Len(b) \/ ~utf8_second_ok(b[i], b[i + 1]) THEN 0
    ELSE IF need = 1 \/ i + 2 > Len(b) \/ ~is_cont(b[i + 2]) THEN 1
    ELSE IF need = 2 \/ i + 3 > Len(b) \/ ~is_cont(b[i + 3]) THEN 2
    ELSE 3

utf8_value(b, i, need) ==
    IF need = 1 THEN (b[i] - 192) * 64 + (b[i + 1] - 128)
    ELSE IF need = 2 THEN (b[i] - 224) * 4096 + (b[i + 1] - 128) * 64 + (b[i + 2] - 128)
    ELSE (b[i] - 240) * 262144 + (b[i + 1] - 128) * 4096 + (b[i + 2] - 128) * 64 + (b[i + 3] - 128)

\* b[i..].decode("utf-8", errors="replace"): an ill-formed sequence becomes
\* one REPLACEMENT for its longest well-formed start
\* the end of the run of ASCII bytes that starts at i
ascii_run_end(b, i) ==
    LET stops == { j \in i..Len(b) : b[j] >= 128 }
    IN  IF stops = {} THEN Len(b) + 1 ELSE CHOOSE j \in stops : \A k \in stops : j <= k

RECURSIVE utf8_decode_from(_, _)
utf8_decode_from(b, i) ==
    IF i > Len(b) THEN << >>
    ELSE IF b[i] < 128
    THEN slice(b, i, ascii_run_end(b, i) - 1) \o utf8_decode_from(b, ascii_run_end(b, i))
    ELSE LET need == utf8_need(b[i])
             have == utf8_have(b, i, need)
         IN  IF need = -1 THEN << REPLACEMENT >> \o utf8_decode_from(b, i + 1)
             ELSE IF have = need THEN << utf8_value(b, i, need) >> \o utf8_decode_from(b, i + 1 + need)
             ELSE << REPLACEMENT >> \o utf8_decode_from(b, i + 1 + have)

decode_utf8(b) == utf8_decode_from(b, 1)

is_high_surrogate(u) == u >= 55296 /\ u <= 56319
is_low_surrogate(u) == u >= 56320 /\ u <= 57343

\* the number of whole code units from position i on that are no surrogates
plain_units(b, i) ==
    LET whole == (Len(b) - i + 1) \div 2
        unit(k) == b[i + 2 * k] + 256 * b[i + 2 * k + 1]
        stops == { k \in 0..(whole - 1) : is_high_surrogate(unit(k)) \/ is_low_surrogate(unit(k)) }
    IN  IF stops = {} THEN whole ELSE CHOOSE k \in stops : \A j \in stops : k <= j

\* b[i..].decode("utf-16-le", errors="replace")
RECURSIVE utf16le_decode_from(_, _)
utf16le_decode_from(b, i) ==
    IF i > Len(b) THEN << >>
    ELSE IF i = Len(b) THEN << REPLACEMENT >>                 \* half a code unit
    ELSE LET u == b[i] + 256 * b[i + 1]
         IN  IF is_low_surrogate(u) THEN << REPLACEMENT >> \o utf16le_decode_from(b, i + 2)
             ELSE IF ~is_high_surrogate(u)
             THEN [k \in 1..plain_units(b, i) |-> b[i + 2 * k - 2] + 256 * b[i + 2 * k - 1]]
                  \o utf16le_decode_from(b, i + 2 * plain_units(b, i))
             ELSE IF i + 3 > Len(b) THEN << REPLACEMENT >>    \* truncated pair
             ELSE LET v == b[i + 2] + 256 * b[i + 3]
                  IN  IF is_low_surrogate(v)
                      THEN << 65536 + (u - 55296) * 1024 + (v - 56320) >>
                           \o utf16le_decode_from(b, i + 4)
                      ELSE << REPLACEMENT >> \o utf16le_decode_from(b, i + 2)

decode_utf16le(b) == utf16le_decode_from(b, 1)

\* str.encode("utf-8") / str.encode("utf-16-le") of one code point (no surrogates)
utf8_of(cp) ==
    IF cp < 128 THEN << cp >>
    ELSE IF cp < 2048 THEN << 192 + (cp \div 64), 128 + (cp % 64) >>
    ELSE IF cp < 65536
    THEN << 224 + (cp \div 4096), 128 + ((cp \div 64) % 64), 128 + (cp % 64) >>
    ELSE << 240 + (cp \div 262144), 128 + ((cp \div 4096) % 64),
            128 + ((cp \div 64) % 64), 128 + (cp % 64) >>

utf16le_of(cp) ==
    IF cp < 65536 THEN << cp % 256, cp \div 256 >>
    ELSE LET hi == 55296 + ((cp - 65536) \div 1024)
             lo == 56320 + ((cp - 65536) % 1024)
         IN  << hi % 256, hi \div 256, lo % 256, lo \div 256 >>

RECURSIVE encode_from(_, _, _)
encode_from(s, i, wide) ==
    IF i > Len(s) THEN << >>
    ELSE (IF wide THEN utf16le_of(s[i]) ELSE utf8_of(s[i])) \o encode_from(s, i + 1, wide)

encode_utf8(s) ==
    IF \A i \in 1..Len(s) : s[i] < 128 THEN s ELSE encode_from(s, 1, FALSE)

encode_utf16le(s) ==
    IF \A i \in 1..Len(s) : s[i] < 65536
    THEN [k \in 1..(2 * Len(s)) |-> IF k % 2 = 1 THEN s[(k + 1) \div 2] % 256
                                     ELSE s[k \div 2] \div 256]
    ELSE encode_from(s, 1, TRUE)

\* struct.pack("<i", n)
pack_i(n) ==
    LET m == IF n >= 0 THEN n ELSE n + 2147483647 + 1     \* n + 2^31, top bit apart
        top == (m \div 16777216) + (IF n >= 0 THEN 0 ELSE 128)
    IN  << m % 256, (m \div 256) % 256, (m \div 65536) % 256, top >>

(***************************************************************************)
(* Byte literals of the source.                                            *)
(***************************************************************************)
GVAS == << 71, 86, 65, 83 >>                      \* b"GVAS"
CSDC == << 67, 83, 68, 67 >>                      \* b"CSDC"
SG_ == << 83, 71, 95 >>                           \* b"SG_"
SDCP == << 83, 68, 67, 80 >>                      \* b"SDCP"
PROP_WORLD_NAME == << 83, 71, 95, 87, 78 >>       \* b"SG_WN"
PROP_WORLD_GUID == << 83, 71, 95, 87, 71, 85, 73, 68 >>   \* b"SG_WGUID"
PROP_WORLD_SEED == << 83, 71, 95, 87, 83 >>       \* b"SG_WS"
PROP_MAP_NAME == << 83, 71, 95, 77, 78 >>         \* b"SG_MN"

\* the offsets past the marker, in the order the loop of line 742 tries them
OFFSETS == << 60, 24, 36, 48, 52, 56, 64 >>

MIN_LENGTH == 10
STRING_TYPE == 6
INT_TYPE == 2
CHARACTER_OFFSET == 60
MIN_BLOCK == 40
NAME_LEN_AT == 29
NAME_AT == 33
MAX_NAME == 100

(***************************************************************************)
(* _decompress_first_csdc                                                  *)
(***************************************************************************)
\* variant: the acceptance test without the secondary marker
accepts_without_marker(decompressed) == len(decompressed) > MIN_LENGTH

\* line 746
accepts(decompressed) == len(decompressed) > MIN_LENGTH /\ bytes_in(SG_, decompressed)

\* the for loop of lines 742-749 from the i-th offset on
RECURSIVE probe(_, _, _)
probe(data, csdc_pos, i) ==
    IF i > Len(OFFSETS) THEN None
    ELSE LET decompressed == zlib_decompress(bytes_from(data, csdc_pos + OFFSETS[i]))
         IN  IF decompressed # None /\ accepts(decompressed[1]) THEN decompressed
             ELSE probe(data, csdc_pos, i + 1)

_decompress_first_csdc(data) ==
    LET csdc_pos == find(data, CSDC, 0)
    IN  IF csdc_pos = -1 THEN None ELSE probe(data, csdc_pos, 1)

(***************************************************************************)
(* _extract_character_name                                                 *)
(***************************************************************************)
\* variant: the name read without the sanity check on its length
name_of_block_unchecked(decompressed) ==
    LET name_len == unpack_i(bytes_slice(decompressed, NAME_LEN_AT, NAME_AT))[1]
    IN  IF name_len > 0
        THEN Some(decode_utf8(bytes_slice(decompressed, NAME_AT, NAME_AT + name_len - 1)))
        ELSE IF name_len < 0
        THEN Some(decode_utf16le(bytes_slice(decompressed, NAME_AT, NAME_AT + (-name_len) * 2 - 2)))
        ELSE None

\* lines 786-808: the name of a block that carries the sub-marker
name_of_block(decompressed) ==
    LET unpacked == unpack_i(bytes_slice(decompressed, NAME_LEN_AT, NAME_AT))
    IN  IF unpacked = None THEN None                          \* struct.error
        ELSE LET name_len == unpacked[1]
             IN  IF name_len > 0
                 THEN IF name_len > MAX_NAME THEN None
                      ELSE Some(decode_utf8(bytes_slice(decompressed, NAME_AT,
                                                        NAME_AT + name_len - 1)))
                 ELSE IF name_len < 0
                 THEN LET char_count == -name_len
                          byte_count == char_count * 2
                      IN  IF char_count > MAX_NAME THEN None
                          ELSE Some(decode_utf16le(bytes_slice(decompressed, NAME_AT,
                                                               NAME_AT + byte_count - 2)))
                 ELSE None

\* line 784
has_sdcp(decompressed) ==
    len(decompressed) >= MIN_BLOCK /\ bytes_slice(decompressed, 4, 8) = SDCP

\* the while loop of lines 771-811 from position pos on
RECURSIVE character_name_from(_, _)
character_name_from(data, pos) ==
    LET csdc_pos == find(data, CSDC, pos)
    IN  IF csdc_pos = -1 THEN None
        ELSE LET decompressed == zlib_decompress(bytes_from(data, csdc_pos + CHARACTER_OFFSET))
             IN  IF decompressed = None THEN character_name_from(data, csdc_pos + 4)
                 ELSE IF has_sdcp(decompressed[1]) THEN name_of_block(decompressed[1])
                 ELSE character_name_from(data, csdc_pos + 4)

_extract_character_name(data) == character_name_from(data, 0)

(***************************************************************************)
(* _extract_string_property / _extract_int_property                        *)
(***************************************************************************)
\* variant: the terminator is decoded with the text
string_value_with_terminator(data, pos) ==
    LET unpacked == unpack_i(bytes_slice(data, pos, pos + 4))
    IN  IF unpacked = None THEN None
        ELSE LET str_len == unpacked[1]
             IN  IF str_len < 0
                 THEN Some(decode_utf16le(bytes_slice(data, pos + 4, pos + 4 + (-str_len) * 2)))
                 ELSE Some(decode_utf8(bytes_slice(data, pos + 4, pos + 4 + str_len)))

\* lines 843-857: the value of a field of string type whose length word is at pos
string_value(data, pos) ==
    LET unpacked == unpack_i(bytes_slice(data, pos, pos + 4))
    IN  IF unpacked = None THEN None                          \* struct.error
        ELSE LET str_len == unpacked[1]
             IN  IF str_len < 0
                 THEN LET char_count == -str_len
                          byte_count == char_count * 2
                      IN  Some(decode_utf16le(bytes_slice(data, pos + 4, pos + 4 + byte_count - 2)))
                 ELSE Some(decode_utf8(bytes_slice(data, pos + 4, pos + 4 + str_len - 1)))

_extract_string_property(data, property_name) ==
    LET found == find(data, property_name, 0)
        pos == found + len(property_name) + 1
    IN  IF found = -1 THEN None
        ELSE IF pos >= len(data) THEN None                    \* IndexError
        ELSE IF data[pos + 1] = STRING_TYPE THEN string_value(data, pos + 1)
        ELSE None

_extract_int_property(data, property_name) ==
    LET found == find(data, property_name, 0)
        pos == found + len(property_name) + 1
    IN  IF found = -1 THEN None
        ELSE IF pos >= len(data) THEN None                    \* IndexError
        ELSE IF data[pos + 1] = INT_TYPE THEN unpack_I(bytes_slice(data, pos + 1, pos + 5))
        ELSE None

(***************************************************************************)
(* State.                                                                  *)
(*   dir      the save directory: file name -> [content, mtime]            *)
(*   result   the list returned by the last version scan                   *)
(*   scanned  "none", or the kind ("world" / "character") of the last scan *)
(*   gone     the files that were deleted by another process while the     *)
(*            last scan was in its directory loop (their later stat() and  *)
(*            open() raise OSError)                                        *)
(*   syn      the parameters a file name was synthesized from              *)
(*   cls      the classification of that file name, None before it is run  *)
(*   buf      the argument a decoder or extractor is called with            *)
(*   ret      what it returned, None before the call                        *)
(*   dstat    what the path of the save directory is (DirStates)           *)
(*   cursor   the local pos of the character-name block search in progress *)
(*   last     the last operation of the window on the directory, or NoOp   *)
(*   entries  the index of a backup category: file name -> display name    *)
(*   dirs     the names of the directories in the category directory       *)
(*   calls    the calls of get_backup_directory so far, with their results *)
(***************************************************************************)
VARIABLES dir, result, scanned, gone, syn, cls, buf, ret, dstat, cursor, lastop, entries, dirs, calls

vars == << dir, result, scanned, gone, syn, cls, buf, ret, dstat, cursor, lastop, entries, dirs, calls >>

(***************************************************************************)
(* Files.  A directory entry holds the name of its content; FileBytes maps *)
(* the name to the bytes of the file.                                      *)
(***************************************************************************)
Durin == << "D", "u", "r", "i", "n" >>
Moria == << "M", "o", "r", "i", "a" >>
EmptyStr == << >>

\* chr() on the code points of printable ASCII (four characters are spelled
\* by name) and on U+FFFD
Printable ==
    << " ", "!", "dquote", "#", "$", "%", "&", "quote", "(", ")", "*", "+", ",", "-", ".", "/",
       "0", "1", "2", "3", "4", "5", "6", "7", "8", "9", ":", ";", "<", "=", ">", "?",
       "@", "A", "B", "C", "D", "E", "F", "G", "H", "I", "J", "K", "L", "M", "N", "O",
       "P", "Q", "R", "S", "T", "U", "V", "W", "X", "Y", "Z", "[", "backslash", "]", "^", "_",
       "backtick", "a", "b", "c", "d", "e", "f", "g", "h", "i", "j", "k", "l", "m", "n", "o",
       "p", "q", "r", "s", "t", "u", "v", "w", "x", "y", "z", "{", "|", "}", "~" >>

chr(cp) == IF cp >= 32 /\ cp <= 126 THEN Printable[cp - 31] ELSE "U+FFFD"

\* a decoded str (code points) as a str of the aggregator (characters)
py_str(cps) == [i \in 1..Len(cps) |-> chr(cps[i])]

\* ord() of an ASCII str
ord_str(s) == [i \in 1..Len(s) |-> 31 + CHOOSE k \in 1..Len(Printable) : Printable[k] = s[i]]

zeros(n) == [i \in 1..n |-> 0]

\* a field of string type as the game writes it: key, 0, tag, length, text, 0
string_field(key, s) ==
    key \o << 0, STRING_TYPE >> \o pack_i(Len(encode_utf8(s)) + 1) \o encode_utf8(s) \o << 0 >>

\* the same field in the wide encoding: negative length, UTF-16LE, 2-byte terminator
wide_string_field(key, s) ==
    key \o << 0, STRING_TYPE >> \o pack_i(-(Len(encode_utf16le(s)) \div 2 + 1))
        \o encode_utf16le(s) \o << 0, 0 >>

\* a field of integer type: key, 0, tag, four bytes
int_field(key, four) == key \o << 0, INT_TYPE >> \o four

\* a block of a character file: sub-marker at 4, length at 29, name at 33
sdcp_block(name_len, payload) ==
    LET head == zeros(4) \o SDCP \o zeros(NAME_LEN_AT - 8) \o pack_i(name_len) \o payload
    IN  head \o zeros(MIN_BLOCK - Len(head))

\* the header block of a character file
PSTR_BLOCK == zeros(4) \o << 80, 83, 84, 82 >> \o zeros(8)

\* a container block whose payload starts off bytes after the marker
container(off, payload) == CSDC \o zeros(off - Len(CSDC)) \o zlib_stored(payload)

RECURSIVE containers(_)
containers(blocks) ==
    IF blocks = << >> THEN << >>
    ELSE container(CHARACTER_OFFSET, Head(blocks)) \o containers(Tail(blocks))

\* a save file with the signature and its blocks, each at offset 60
file_of(blocks) == GVAS \o zeros(4) \o containers(blocks)

WorldContents == {"world_unnamed", "world_durin", "world_moria", "world_empty"}
CharacterContents == {"character_unnamed", "character_durin", "character_moria"}
CorruptContents == {"bad_signature", "no_marker", "bad_stream", "malformed_field"}
ContentIds == WorldContents \cup CharacterContents \cup CorruptContents

FileBytes ==
    [c \in ContentIds |->
        CASE c = "world_unnamed" ->
                 file_of(<< string_field(PROP_MAP_NAME, ord_str(Moria)) >>)
          [] c = "world_durin" ->
                 file_of(<< string_field(PROP_WORLD_NAME, ord_str(Durin))
                              \o int_field(PROP_WORLD_SEED, << 1, 2, 3, 4 >>) >>)
          [] c = "world_moria" ->
                 file_of(<< wide_string_field(PROP_WORLD_NAME, ord_str(Moria))
                              \o string_field(PROP_MAP_NAME, ord_str(Moria)) >>)
          [] c = "world_empty" ->
                 file_of(<< string_field(PROP_WORLD_NAME, << >>)
                              \o string_field(PROP_MAP_NAME, ord_str(Moria)) >>)
          [] c = "character_unnamed" ->
                 file_of(<< PSTR_BLOCK >>)
          [] c = "character_durin" ->
                 file_of(<< PSTR_BLOCK, sdcp_block(6, ord_str(Durin) \o << 0 >>) >>)
          [] c = "character_moria" ->
                 file_of(<< PSTR_BLOCK,
                              sdcp_block(-6, encode_utf16le(ord_str(Moria)) \o << 0, 0 >>) >>)
          [] c = "bad_signature" ->
                 << 83, 65, 86, 71 >> \o zeros(4)
                     \o containers(<< string_field(PROP_WORLD_NAME, ord_str(Durin)) >>)
          [] c = "no_marker" ->
                 GVAS \o zeros(12)
          [] c = "bad_stream" ->
                 GVAS \o zeros(4) \o CSDC \o zeros(CHARACTER_OFFSET - Len(CSDC)) \o << 120, 1, 1, 5, 0 >>
          [] c = "malformed_field" ->
                 file_of(<< string_field(PROP_MAP_NAME, ord_str(Moria))
                              \o PROP_WORLD_NAME \o << 0, STRING_TYPE, 6, 0 >> >>)]

\* the contents of the directories of Spec
Contents == {"bad_signature", "world_unnamed", "world_durin", "character_unnamed",
             "character_durin"}

\* the contents of the directory under interference
EnvContents == {"bad_signature", "world_moria", "character_moria"}

\* a world file is written under a world name, a character file under a character name
fits(name_is_world, content) ==
    /\ content \in WorldContents => name_is_world
    /\ content \in CharacterContents => ~name_is_world

\* Python truthiness of an Optional[str]: None and "" are falsy
truthy(opt) == opt # None /\ opt[1] # EmptyStr

\* variant: "a if a is not None else b"
or_else_if_none(opt, default) == IF opt # None THEN opt[1] ELSE default

\* "a or b" on an Optional[str] and a str
or_else(opt, default) == IF truthy(opt) THEN opt[1] ELSE default

\* Optional[str] of code points as Optional[str] of characters
opt_str(opt) == IF opt = None THEN None ELSE Some(py_str(opt[1]))

(***************************************************************************)
(* Entity parsers.  d is the directory, g the set of files that no longer  *)
(* exist when the parser opens them.                                       *)
(***************************************************************************)
\* lines 231-243: None when the parser returns None
world_fields(data) ==
    IF ~bytes_startswith(data, GVAS) THEN None
    ELSE LET decompressed == _decompress_first_csdc(data)
         IN  IF decompressed = None THEN None
             ELSE Some([world_name |-> opt_str(_extract_string_property(decompressed[1], PROP_WORLD_NAME)),
                        world_guid |-> opt_str(_extract_string_property(decompressed[1], PROP_WORLD_GUID)),
                        map_name |-> opt_str(_extract_string_property(decompressed[1], PROP_MAP_NAME)),
                        world_seed |-> _extract_int_property(decompressed[1], PROP_WORLD_SEED)])

\* lines 280-287
character_fields(data) ==
    IF ~bytes_startswith(data, GVAS) THEN None
    ELSE Some([character_name |-> opt_str(_extract_character_name(data))])

\* what the parsers read from each file of the model
WorldFields == [c \in ContentIds |-> world_fields(FileBytes[c])]
CharacterFields == [c \in ContentIds |-> character_fields(FileBytes[c])]

parse_world_save(d, g, file_path) ==
    IF file_path \in g THEN None                      \* open() raises OSError
    ELSE LET fields == WorldFields[d[file_path].content]
         IN  IF fields = None THEN None
             ELSE Some([file_path |-> file_path,
                        world_name |-> or_else(fields[1].world_name, UnknownWorld),
                        modified_time |-> Some(d[file_path].mtime)])

parse_character_save(d, g, file_path) ==
    IF file_path \in g THEN None                      \* open() raises OSError
    ELSE LET fields == CharacterFields[d[file_path].content]
         IN  IF fields = None THEN None
             ELSE Some([file_path |-> file_path,
                        character_name |-> fields[1].character_name,
                        modified_time |-> Some(d[file_path].mtime)])

\* the two scans differ in the prefix, the parser and the info record
prefix_of(kind) == IF kind = "world" THEN WORLD_PREFIX ELSE CHARACTER_PREFIX

parse_save(kind, d, g, file_path) ==
    IF kind = "world" THEN parse_world_save(d, g, file_path)
    ELSE parse_character_save(d, g, file_path)

\* parsed.world_name / parsed.character_name as the orphan loop tests it
parsed_name(kind, info) ==
    IF kind = "world" THEN Some(info.world_name) ELSE info.character_name

\* WorldSaveInfo(...) of line 499 / CharacterSaveInfo(...) of line 693
orphan_info(kind, file_path, name, modified_time) ==
    IF kind = "world"
    THEN [file_path |-> file_path, world_name |-> name, modified_time |-> modified_time]
    ELSE [file_path |-> file_path, character_name |-> Some(name),
          modified_time |-> modified_time]

(***************************************************************************)
(* list.sort / sorted: a stable insertion sort on records with a field k.  *)
(***************************************************************************)
datetime_min == 0

\* "modified_time or datetime.min"
time_key(modified_time) == IF modified_time = None THEN datetime_min ELSE modified_time[1]

stays_before(a, x, reverse) == IF reverse THEN a.k > x.k ELSE a.k < x.k

RECURSIVE insert_stable(_, _, _)
insert_stable(x, rest, reverse) ==
    IF rest = << >> THEN << x >>
    ELSE IF stays_before(Head(rest), x, reverse)
    THEN << Head(rest) >> \o insert_stable(x, Tail(rest), reverse)
    ELSE << x >> \o rest

RECURSIVE list_sort(_, _)
list_sort(s, reverse) ==
    IF s = << >> THEN << >>
    ELSE insert_stable(Head(s), list_sort(Tail(s), reverse), reverse)

values_of(s) == [i \in 1..Len(s) |-> s[i].v]

(***************************************************************************)
(* The save directory of the model.                                        *)
(***************************************************************************)
Fmt2(n) == << Digits[(n \div 10) + 1], Digits[(n % 10) + 1] >>

AB == << "A", "B" >>
CD == << "C", "D" >>

MainName(prefix, id) == prefix \o id \o DotSav
FreshName(prefix, id) == prefix \o id \o DotSavDotFresh
BackupName(prefix, id, n) == prefix \o id \o << "." >> \o Fmt2(n) \o DotBak
BadName(prefix, id, n) == prefix \o id \o DotSav \o << "." >> \o Fmt2(n) \o DotBad

WorldNames ==
    { MainName(WORLD_PREFIX, AB), FreshName(WORLD_PREFIX, AB),
      BackupName(WORLD_PREFIX, AB, 0), BackupName(WORLD_PREFIX, AB, 1),
      BadName(WORLD_PREFIX, AB, 0), MainName(WORLD_PREFIX, CD),
      WORLD_PREFIX \o AB \o DotSav \o DotSav,
      WORLD_PREFIX \o AB \o << "." >> \o CD \o DotSav }

CharacterNames ==
    { MainName(CHARACTER_PREFIX, AB), FreshName(CHARACTER_PREFIX, AB),
      BackupName(CHARACTER_PREFIX, AB, 0), BadName(CHARACTER_PREFIX, CD, 0) }

FileNames == WorldNames \cup CharacterNames

\* The directory in which the environment interferes with a scan: a name the
\* platforms disagree on (lower-case prefix) and files deleted during the scan.
EnvWorldNames ==
    { FreshName(WORLD_PREFIX, AB), BackupName(WORLD_PREFIX, AB, 0),
      MainName(WORLD_PREFIX, CD), MainName(lower_str(WORLD_PREFIX), AB) }

EnvCharacterNames == { MainName(CHARACTER_PREFIX, AB), BackupName(CHARACTER_PREFIX, CD, 0) }

EnvNames == EnvWorldNames \cup EnvCharacterNames

\* The directory the window works on: a world with a hexadecimal id in every
\* role, a world whose id is not hexadecimal, a primary with a dot in its id,
\* and the names the window's renames can give them.
MaxGuiFiles == 3

GH == << "G", "H" >>

StartGui ==
    { MainName(WORLD_PREFIX, AB), FreshName(WORLD_PREFIX, AB),
      BackupName(WORLD_PREFIX, AB, 0), BadName(WORLD_PREFIX, AB, 0),
      MainName(WORLD_PREFIX, GH),
      WORLD_PREFIX \o AB \o << "." >> \o CD \o DotSav }

GuiNames ==
    StartGui \cup { BadName(WORLD_PREFIX, AB, n) : n \in 0..MaxGuiFiles }
             \cup { BadName(WORLD_PREFIX, GH, 0) }

AllNames == FileNames \cup EnvNames \cup GuiNames


(***************************************************************************)
(* Memoised name computations: the classifier and the glob test depend on  *)
(* the file name only, so they are evaluated once per name of the model.   *)
(***************************************************************************)
Kinds == {"world", "character"}

ClassifyTable == [kind \in Kinds |-> [n \in AllNames |-> classify(prefix_of(kind), n)]]

BaseNameTable == [n \in AllNames |-> base_name(n)]

(***************************************************************************)
(* get_world_saves / get_character_saves.                                  *)
(*   order  the order in which the directory enumerates its entries        *)
(*   ci     TRUE when Path.glob matches case-insensitively (Windows, the   *)
(*          platform of the application), FALSE on POSIX                   *)
(***************************************************************************)
\* save_directory.glob(f"{PREFIX}*.sav") on one entry name
glob_match(prefix, name, ci) ==
    LET n == IF ci THEN lower_str(name) ELSE name
        p == IF ci THEN lower_str(prefix) ELSE prefix
    IN  /\ Len(n) >= Len(p) + Len(DotSav)
        /\ startswith(n, p)
        /\ endswith(n, DotSav)

\* ".bak" in save_file.suffixes
has_bak_suffix(name) == \E i \in 1..Len(suffixes(name)) : suffixes(name)[i] = DotBak

\* the entries the loop of line 313 / 340 parses
GlobTable ==
    [kind \in Kinds |-> [ci \in BOOLEAN |->
        { n \in AllNames : glob_match(prefix_of(kind), n, ci) /\ ~has_bak_suffix(n) }]]

\* variant: the loop ends at the first file that does not parse
RECURSIVE parsed_saves_until_failure(_, _, _, _)
parsed_saves_until_failure(kind, d, order, ci) ==
    IF order = << >> THEN << >>
    ELSE LET save_file == Head(order)
             info == parse_save(kind, d, {}, save_file)
         IN  IF save_file \notin GlobTable[kind][ci]
             THEN parsed_saves_until_failure(kind, d, Tail(order), ci)
             ELSE IF info = None THEN << >>
             ELSE << info[1] >> \o parsed_saves_until_failure(kind, d, Tail(order), ci)

\* "if info: worlds.append(info)" of lines 319-320, rest: the later files
with_info(info, rest) == IF info = None THEN rest ELSE << info[1] >> \o rest

RECURSIVE parsed_saves(_, _, _, _)
parsed_saves(kind, d, order, ci) ==
    IF order = << >> THEN << >>
    ELSE IF Head(order) \notin GlobTable[kind][ci] THEN parsed_saves(kind, d, Tail(order), ci)
    ELSE with_info(parse_save(kind, d, {}, Head(order)),
                   parsed_saves(kind, d, Tail(order), ci))

\* worlds.sort(key=lambda w: w.modified_time or datetime.min, reverse=True)
newest_first(saves) ==
    values_of(list_sort([i \in 1..Len(saves) |->
                            [k |-> time_key(saves[i].modified_time), v |-> saves[i]]],
                        TRUE))

get_saves(kind, d, order, ci) == newest_first(parsed_saves(kind, d, order, ci))

get_world_saves(d, order, ci) == get_saves("world", d, order, ci)
get_character_saves(d, order, ci) == get_saves("character", d, order, ci)

(***************************************************************************)
(* dict operations on a sequence of records with a "key" field.            *)
(***************************************************************************)
has_key(m, key) == \E i \in 1..Len(m) : m[i].key = key
index_of(m, key) == CHOOSE i \in 1..Len(m) : m[i].key = key

\* variant: a list of entries instead of a dict, every assignment appends
dict_set_append(m, key, value) == Append(m, value)

\* m[key] = value : a new key goes last, an existing key keeps its position
dict_set(m, key, value) ==
    IF has_key(m, key)
    THEN [m EXCEPT ![index_of(m, key)] = value]
    ELSE Append(m, value)

\* world_map[base_name].versions.append(version)
append_version(m, key, version) ==
    [m EXCEPT ![index_of(m, key)].versions = Append(@, version)]

\* orphan_files[base_name].append(entry), creating the list when absent
append_orphan(m, key, entry) ==
    IF has_key(m, key)
    THEN [m EXCEPT ![index_of(m, key)].files = Append(@, entry)]
    ELSE Append(m, [key |-> key, files |-> << entry >>])

(***************************************************************************)
(* get_worlds_with_versions / get_characters_with_versions.                *)
(***************************************************************************)
\* lines 370-374: world_map[info.base_name] = WorldWithVersions(info, [])
RECURSIVE build_map(_, _)
build_map(infos, m) ==
    IF infos = << >> THEN m
    ELSE build_map(Tail(infos),
                   dict_set(m, BaseNameTable[Head(infos).file_path],
                            [key |-> BaseNameTable[Head(infos).file_path],
                             info |-> Head(infos),
                             versions |-> << >>]))

\* file_path.stat() of the directory loop and of the orphan loop
stat_mtime(d, g, file_path) == IF file_path \in g THEN None ELSE Some(d[file_path].mtime)

SaveFileVersion(d, g, file_path, version_type, backup_number) ==
    [file_path |-> file_path,
     version_type |-> version_type,
     backup_number |-> backup_number,
     modified_time |-> stat_mtime(d, g, file_path)]

\* variant: the loop without the branch for marked-bad files
loop_step_without_bad(kind, d, g, filename, st) ==
    LET c == ClassifyTable[kind][filename]
    IN  IF c.version_type \in {"ignored", "bad"} THEN st
        ELSE IF has_key(st.map, c.base_name)
        THEN [st EXCEPT !.map = append_version(@, c.base_name,
                  SaveFileVersion(d, g, filename, c.version_type, c.backup_number))]
        ELSE IF c.version_type = "main" THEN st
        ELSE [st EXCEPT !.orphans = append_orphan(@, c.base_name,
                  [file_path |-> filename, file_type |-> c.version_type,
                   num |-> c.backup_number])]

\* lines 384-467: one pass over iterdir(); st = [map, orphans]
loop_step(kind, d, g, filename, st) ==
    LET c == ClassifyTable[kind][filename]
    IN  IF c.version_type = "ignored" THEN st
        ELSE IF has_key(st.map, c.base_name)
        THEN [st EXCEPT !.map = append_version(@, c.base_name,
                  SaveFileVersion(d, g, filename, c.version_type, c.backup_number))]
        ELSE IF c.version_type = "main" THEN st
        ELSE [st EXCEPT !.orphans = append_orphan(@, c.base_name,
                  [file_path |-> filename, file_type |-> c.version_type,
                   num |-> c.backup_number])]

RECURSIVE directory_loop(_, _, _, _, _)
directory_loop(kind, d, g, order, st) ==
    IF order = << >> THEN st
    ELSE directory_loop(kind, d, g, Tail(order), loop_step(kind, d, g, Head(order), st))

\* the key of line 480: {"fresh": 0, "backup": 1, "bad": 2}.get(type, 3)
type_rank(file_type) ==
    IF file_type = "fresh" THEN 0
    ELSE IF file_type = "backup" THEN 1
    ELSE IF file_type = "bad" THEN 2
    ELSE 3

\* sorted(files, key=...) of line 480
preference_order(files) ==
    values_of(list_sort([i \in 1..Len(files) |->
                            [k |-> type_rank(files[i].file_type), v |-> files[i]]],
                        FALSE))

\* lines 476-485: the first file, in that order, that parses to a non-empty name
\* lines 481-485: the name is taken from a file that parses to a non-empty
\* name, otherwise the loop goes on to the later files
name_or_next(kind, file_path, parsed, next) ==
    IF parsed # None /\ truthy(parsed_name(kind, parsed[1]))
    THEN [name |-> parsed_name(kind, parsed[1]), best_file |-> Some(file_path)]
    ELSE next

RECURSIVE first_decodable(_, _, _, _)
first_decodable(kind, d, g, files) ==
    IF files = << >> THEN [name |-> None, best_file |-> None]
    ELSE name_or_next(kind, Head(files).file_path,
                      parse_save(kind, d, g, Head(files).file_path),
                      first_decodable(kind, d, g, Tail(files)))

\* variant: the orphan entity named after its base identity without parsing
orphan_entity_unparsed(kind, d, g, key, files) ==
    [key |-> key,
     info |-> orphan_info(kind, files[1].file_path, key, stat_mtime(d, g, files[1].file_path)),
     versions |-> [i \in 1..Len(files) |->
                      SaveFileVersion(d, g, files[i].file_path,
                                      files[i].file_type, files[i].num)]]

\* lines 487-525: the entity synthesized for one orphan group
\* lines 487-525: the entity built from what the loop over the files found
entity_from(kind, d, g, key, files, found) ==
    LET name == IF truthy(found.name) THEN found.name[1] ELSE key
        first_file == files[1].file_path
        modified_time == stat_mtime(d, g, first_file)
    IN  [key |-> key,
         info |-> orphan_info(kind,
                              IF found.best_file # None THEN found.best_file[1]
                              ELSE first_file,
                              name, modified_time),
         versions |-> [i \in 1..Len(files) |->
                          SaveFileVersion(d, g, files[i].file_path,
                                          files[i].file_type, files[i].num)]]

\* lines 475-525: the entity synthesized for one orphan group
orphan_entity(kind, d, g, key, files) ==
    entity_from(kind, d, g, key, files,
                first_decodable(kind, d, g, preference_order(files)))

\* lines 470-525
RECURSIVE process_orphans(_, _, _, _, _)
process_orphans(kind, d, g, orphans, m) ==
    IF orphans = << >> THEN m
    ELSE IF has_key(m, Head(orphans).key)
    THEN process_orphans(kind, d, g, Tail(orphans), m)
    ELSE process_orphans(kind, d, g, Tail(orphans),
             dict_set(m, Head(orphans).key,
                      orphan_entity(kind, d, g, Head(orphans).key, Head(orphans).files)))

\* variant: the sort without reverse=True
sort_result_oldest_first(m) ==
    values_of(list_sort([i \in 1..Len(m) |->
                            [k |-> time_key(m[i].info.modified_time),
                             v |-> [info |-> m[i].info, versions |-> m[i].versions]]],
                        FALSE))

\* lines 527-534: list(world_map.values()) sorted newest first
sort_result(m) ==
    values_of(list_sort([i \in 1..Len(m) |->
                            [k |-> time_key(m[i].info.modified_time),
                             v |-> [info |-> m[i].info, versions |-> m[i].versions]]],
                        TRUE))

\* lines 469-534: the orphans of the directory loop are processed, then the
\* entities are sorted
after_loop(kind, d, g, st) == sort_result(process_orphans(kind, d, g, st.orphans, st.map))

scan_with_versions(kind, d, order, g, ci) ==
    after_loop(kind, d, g,
               directory_loop(kind, d, g, order,
                              [map |-> build_map(get_saves(kind, d, order, ci), << >>),
                               orphans |-> << >>]))

get_worlds_with_versions(d, order, g, ci) == scan_with_versions("world", d, order, g, ci)
get_characters_with_versions(d, order, g, ci) == scan_with_versions("character", d, order, g, ci)

Times == 1..MaxTime

\* every order in which a set of entries can be enumerated
Orders(S) == { o \in [1..Cardinality(S) -> S] : \A i, j \in 1..Cardinality(S) : i # j => o[i] # o[j] }

\* a case-insensitive file system holds no two names that differ only in case
CaseFold == [n \in AllNames |-> lower_str(n)]
case_distinct(S) == \A a, b \in S : CaseFold[a] = CaseFold[b] => a = b

NoSyn == [kind |-> "none"]
NoOp == [op |-> "none"]
NoBuf == [fn |-> "none"]

Init ==
    /\ dir = << >>
    /\ result = << >>
    /\ scanned = "none"
    /\ gone = {}
    /\ syn = NoSyn
    /\ cls = None
    /\ buf = NoBuf
    /\ ret = None
    /\ dstat = "ok"
    /\ cursor = 0
    /\ lastop = NoOp
    /\ entries = << >>
    /\ dirs = {}
    /\ calls = << >>

\* names of one family (a name with a lower-case prefix counts with its family)
WorldFamily == { n \in AllNames : lower_str(slice(n, 1, 3)) = lower_str(WORLD_PREFIX) }
is_world_name(name) == name \in WorldFamily
same_family(S) == (\A n \in S : is_world_name(n)) \/ (\A n \in S : ~is_world_name(n))

\* Another program (the game, a file manager) creates a file.  A directory
\* of the model holds files of one family: a scan never looks at a file of
\* the other family (the glob pattern and the patterns fix the prefix).
WriteFile(name, content, mtime) ==
    /\ scanned = "none"
    /\ name \notin DOMAIN dir
    /\ Cardinality(DOMAIN dir) < MaxFiles
    /\ same_family(DOMAIN dir \cup {name})
    /\ fits(is_world_name(name), content)
    /\ dir' = [n \in DOMAIN dir \cup {name} |->
                  IF n = name THEN [content |-> content, mtime |-> mtime] ELSE dir[n]]
    /\ UNCHANGED << result, scanned, gone, syn, cls, buf, ret, dstat, cursor, lastop, entries, dirs, calls >>

\* order: the enumeration order of this scan; g: the files deleted while the
\* scan is in its directory loop; ci: the platform's glob is case-insensitive
ScanWorlds(order, g, ci) ==
    /\ scanned = "none"
    /\ \A n \in DOMAIN dir : is_world_name(n)
    /\ ci => case_distinct(DOMAIN dir)
    /\ result' = get_worlds_with_versions(dir, order, g, ci)
    /\ scanned' = "world"
    /\ gone' = g
    /\ UNCHANGED << dir, syn, cls, buf, ret, dstat, cursor, lastop, entries, dirs, calls >>

ScanCharacters(order, g, ci) ==
    /\ scanned = "none"
    /\ \A n \in DOMAIN dir : ~is_world_name(n)
    /\ ci => case_distinct(DOMAIN dir)
    /\ result' = get_characters_with_versions(dir, order, g, ci)
    /\ scanned' = "character"
    /\ gone' = g
    /\ UNCHANGED << dir, syn, cls, buf, ret, dstat, cursor, lastop, entries, dirs, calls >>

\* the caller drops the snapshot; the next scan builds a fresh one
Discard ==
    /\ scanned # "none"
    /\ result' = << >>
    /\ scanned' = "none"
    /\ gone' = {}
    /\ UNCHANGED << dir, syn, cls, buf, ret, dstat, cursor, lastop, entries, dirs, calls >>

(***************************************************************************)
(* Spec: scans of a quiescent directory whose names every platform globs   *)
(* alike (GlobTable[kind][TRUE] and [FALSE] agree on FileNames).           *)
(***************************************************************************)
Next ==
    \/ \E name \in FileNames, content \in Contents, mtime \in Times :
           WriteFile(name, content, mtime)
    \/ \E order \in Orders(DOMAIN dir) : ScanWorlds(order, {}, FALSE)
    \/ \E order \in Orders(DOMAIN dir) : ScanCharacters(order, {}, FALSE)
    \/ Discard

Spec == Init /\ [][Next]_vars

(***************************************************************************)
(* SpecEnv: scans under interference, on either platform.                  *)
(***************************************************************************)
NextEnv ==
    \/ \E name \in EnvNames, content \in EnvContents, mtime \in Times :
           WriteFile(name, content, mtime)
    \/ \E order \in Orders(DOMAIN dir), g \in SUBSET (DOMAIN dir), ci \in BOOLEAN :
           ScanWorlds(order, g, ci)
    \/ \E order \in Orders(DOMAIN dir), g \in SUBSET (DOMAIN dir), ci \in BOOLEAN :
           ScanCharacters(order, g, ci)
    \/ Discard

SpecEnv == Init /\ [][NextEnv]_vars

(***************************************************************************)
(* Derived views of WorldWithVersions / CharacterWithVersions.             *)
(***************************************************************************)
RECURSIVE first_of_type(_, _)
first_of_type(versions, version_type) ==
    IF versions = << >> THEN None
    ELSE IF Head(versions).version_type = version_type THEN Some(Head(versions))
    ELSE first_of_type(Tail(versions), version_type)

main_file(entity) == first_of_type(entity.versions, "main")
fresh_file(entity) == first_of_type(entity.versions, "fresh")

\* [v for v in self.versions if v.version_type == "backup"]
RECURSIVE of_type(_, _)
of_type(versions, version_type) ==
    IF versions = << >> THEN << >>
    ELSE IF Head(versions).version_type = version_type
    THEN << Head(versions) >> \o of_type(Tail(versions), version_type)
    ELSE of_type(Tail(versions), version_type)

\* "v.backup_number or 0"
number_or_0(backup_number) == IF backup_number = None THEN 0 ELSE backup_number[1]

\* variant: the numbered backups in the order of the version list
backup_files_unsorted(entity) == of_type(entity.versions, "backup")

\* sorted(backups, key=lambda v: v.backup_number or 0)
backup_files(entity) ==
    values_of(list_sort([i \in 1..Len(of_type(entity.versions, "backup")) |->
                            [k |-> number_or_0(of_type(entity.versions, "backup")[i].backup_number),
                             v |-> of_type(entity.versions, "backup")[i]]],
                        FALSE))

\* CharacterSaveInfo.display_name, and world_name for a world
display_name(kind, info) ==
    IF kind = "world" THEN info.world_name
    ELSE or_else(info.character_name, BaseNameTable[info.file_path])

(***************************************************************************)
(* SpecClassify: the classifier as a pure function of a file name that is  *)
(* synthesized from the grammar                                            *)
(*    <prefix><id>.sav | .sav.fresh | .NN.bak | .sav.NN.bad                *)
(* with the prefix optionally lower-cased and the suffix upper-cased.      *)
(***************************************************************************)
MAX_ORDINAL == 99

Ids == { AB, << "7" >>, << "a", "f" >>, << "G", "H" >>, << "A", ".", "B" >>, << >> }

SynSet ==
    [prefix : {WORLD_PREFIX, CHARACTER_PREFIX}, id : Ids, role : {"main", "fresh"},
     num : {None}, lower_prefix : BOOLEAN, upper_suffix : BOOLEAN]
    \cup
    [prefix : {WORLD_PREFIX, CHARACTER_PREFIX}, id : Ids, role : {"backup", "bad"},
     num : {Some(n) : n \in 0..MAX_ORDINAL}, lower_prefix : BOOLEAN, upper_suffix : BOOLEAN]

suffix_of(role, num) ==
    IF role = "main" THEN DotSav
    ELSE IF role = "fresh" THEN DotSavDotFresh
    ELSE IF role = "backup" THEN << "." >> \o Fmt2(num[1]) \o DotBak
    ELSE DotSav \o << "." >> \o Fmt2(num[1]) \o DotBad

synthesize(s) ==
    (IF s.lower_prefix THEN lower_str(s.prefix) ELSE s.prefix)
    \o s.id
    \o (IF s.upper_suffix THEN upper_str(suffix_of(s.role, s.num)) ELSE suffix_of(s.role, s.num))

\* the canonical spelling of the same name
canonical(s) == [s EXCEPT !.lower_prefix = FALSE, !.upper_suffix = FALSE]

InitClassify ==
    /\ dir = << >>
    /\ result = << >>
    /\ scanned = "none"
    /\ gone = {}
    /\ syn \in SynSet
    /\ cls = None
    /\ buf = NoBuf
    /\ ret = None
    /\ dstat = "ok"
    /\ cursor = 0
    /\ lastop = NoOp
    /\ entries = << >>
    /\ dirs = {}
    /\ calls = << >>

\* the directory loop of the scan of family syn.prefix meets the file name
Classify ==
    /\ syn # NoSyn
    /\ cls = None
    /\ cls' = Some(classify(syn.prefix, synthesize(syn)))
    /\ UNCHANGED << dir, result, scanned, gone, syn, buf, ret, dstat, cursor, lastop, entries, dirs, calls >>

NextClassify == Classify

SpecClassify == InitClassify /\ [][NextClassify]_vars

(***************************************************************************)
(* SpecBytes: the container decoder and the field extractors as pure       *)
(* functions of a byte buffer.  buf records how the buffer was written,    *)
(* the operators *_input build its bytes, ret is Some(returned value).     *)
(***************************************************************************)
MaxStrLen == 2
MaxStreams == 2

\* code points of 1, 2, 3 and 4 UTF-8 bytes (the last is a surrogate pair in UTF-16)
Alphabet == {65, 233, 8364, 128512}

Strings == UNION { [1..n -> Alphabet] : n \in 0..MaxStrLen }

\* a text of n letters
letters(n) == [i \in 1..n |-> 65]

\* the payloads of a container block
One == << 79, 110, 101 >>
Payload ==
    [A |-> string_field(PROP_WORLD_NAME, ord_str(Durin)),
     B |-> string_field(PROP_WORLD_NAME, One),
     short |-> SG_ \o zeros(MIN_LENGTH - 3),
     unmarked |-> PSTR_BLOCK]

\* the bytes of a stream of each kind; "broken" fails its data check
stream_of(kind) ==
    IF kind = "broken"
    THEN LET z == zlib_stored(Payload.A) IN [z EXCEPT ![Len(z)] = (z[Len(z)] + 1) % 256]
    ELSE zlib_stored(Payload[kind])

StreamKinds == {"A", "B", "short", "unmarked", "broken"}
StreamBytes == [k \in StreamKinds |-> stream_of(k)]

\* where a stream can start, counted from the marker: the seven offsets
\* the decoder tries and one it does not
Placements == {24, 36, 40, 48, 52, 56, 60, 64}

\* streams do not overlap
disjoint(streams) ==
    \A a, b \in DOMAIN streams : a < b => a + Len(StreamBytes[streams[a]]) <= b

DecompressInputs ==
    { [fn |-> "decompress", marker |-> m, filler |-> f, streams |-> st] :
        m \in BOOLEAN, f \in {0, 171},
        st \in { x \in UNION { [S -> StreamKinds] :
                                  S \in { T \in SUBSET Placements : Cardinality(T) <= MaxStreams } } :
                  disjoint(x) } }

\* the file: signature, marker (or none), then the streams at their offsets
decompress_input(b) ==
    LET last == 64 + 28
        at(r) == { o \in DOMAIN b.streams : o <= r /\ r < o + Len(StreamBytes[b.streams[o]]) }
        after == [i \in 1..(last - 4) |->
                     LET r == i + 3
                     IN  IF at(r) = {} THEN b.filler
                         ELSE LET o == CHOOSE o \in at(r) : TRUE
                              IN  StreamBytes[b.streams[o]][r - o + 1]]
    IN  GVAS \o zeros(4) \o (IF b.marker THEN CSDC ELSE << 67, 83, 68, 68 >>) \o after

\* a field of string type: the text s in the narrow or the wide encoding,
\* other bytes before and after it, the type tag of the field, and the
\* number of bytes cut off the end of the buffer
Befores == { << >>, int_field(PROP_WORLD_SEED, << 7, 0, 0, 0 >>) }
Afters == { << >>, string_field(PROP_WORLD_GUID, << 65, 66 >>) }
OtherTags == {0, 1, 3, 255}

written_field(b) ==
    LET f == IF b.wide THEN wide_string_field(b.key, b.s) ELSE string_field(b.key, b.s)
    IN  [f EXCEPT ![Len(b.key) + 2] = b.tag]

StringInputs ==
    { [fn |-> "string", key |-> k, s |-> s, wide |-> w, before |-> bf, after |-> af,
       tag |-> STRING_TYPE, cut |-> 0] :
        k \in {PROP_WORLD_NAME, PROP_MAP_NAME}, s \in Strings \cup {letters(MAX_NAME + 1)},
        w \in BOOLEAN, bf \in Befores, af \in Afters }
    \cup
    { [fn |-> "string", key |-> PROP_WORLD_NAME, s |-> s, wide |-> w, before |-> << >>,
       after |-> << >>, tag |-> t, cut |-> 0] :
        s \in Strings, w \in BOOLEAN, t \in OtherTags \cup {INT_TYPE} }
    \cup
    UNION { { [fn |-> "string", key |-> PROP_WORLD_NAME, s |-> s, wide |-> w, before |-> << >>,
               after |-> << >>, tag |-> STRING_TYPE, cut |-> c] :
                c \in 1..(Len(written_field([key |-> PROP_WORLD_NAME, s |-> s, wide |-> w,
                                             tag |-> STRING_TYPE])) - Len(PROP_WORLD_NAME)) } :
            s \in Strings, w \in BOOLEAN }

string_input(b) ==
    LET whole == b.before \o written_field(b) \o b.after
    IN  slice(whole, 1, Len(whole) - b.cut)

\* a field of integer type with its four bytes
FourBytes == { << a, b, c, d >> : a \in {0, 1, 255}, b \in {0, 255}, c \in {0, 255},
                                   d \in {0, 127, 128, 255} }

IntInputs ==
    { [fn |-> "int", key |-> PROP_WORLD_SEED, four |-> v, before |-> bf, after |-> af,
       tag |-> t, cut |-> 0] :
        v \in FourBytes, bf \in { << >>, string_field(PROP_WORLD_NAME, << 65 >>) },
        af \in Afters, t \in {INT_TYPE} }
    \cup
    { [fn |-> "int", key |-> PROP_WORLD_SEED, four |-> v, before |-> << >>, after |-> << >>,
       tag |-> t, cut |-> c] :
        v \in { << 1, 0, 0, 0 >>, << 255, 255, 255, 255 >> },
        t \in OtherTags \cup {INT_TYPE, STRING_TYPE}, c \in 0..5 }

int_input(b) ==
    LET f == int_field(b.key, b.four)
        whole == b.before \o [f EXCEPT ![Len(b.key) + 2] = b.tag] \o b.after
    IN  slice(whole, 1, Len(whole) - b.cut)

\* a character file: an optional first block, then (or not) a block with
\* the sub-marker that declares a name length and carries the text s
FirstBlocks == {"none", "header", "undecodable", "small"}

\* the length word a writer puts before the text
true_length(s, wide) ==
    IF wide THEN -(Len(encode_utf16le(s)) \div 2 + 1) ELSE Len(encode_utf8(s)) + 1

CharacterInputs ==
    { [fn |-> "character_name", first |-> f, named |-> n, s |-> s, wide |-> w, zero |-> z] :
        f \in FirstBlocks, n \in BOOLEAN, w \in BOOLEAN, z \in BOOLEAN,
        s \in Strings \cup {letters(MAX_NAME - 1), letters(MAX_NAME)} }

character_input(b) ==
    LET text == IF b.wide THEN encode_utf16le(b.s) \o << 0, 0 >> ELSE encode_utf8(b.s) \o << 0 >>
        named == sdcp_block(IF b.zero THEN 0 ELSE true_length(b.s, b.wide), text)
        first == IF b.first = "header" THEN container(CHARACTER_OFFSET, PSTR_BLOCK)
                 ELSE IF b.first = "undecodable"
                 THEN CSDC \o zeros(CHARACTER_OFFSET - Len(CSDC)) \o << 120, 1, 1, 5, 0 >>
                 ELSE IF b.first = "small"
                 THEN container(CHARACTER_OFFSET, zeros(4) \o SDCP \o zeros(8))
                 ELSE << >>
    IN  GVAS \o zeros(4) \o first
            \o (IF b.named THEN container(CHARACTER_OFFSET, named) ELSE << >>)

\* an entity parser on a file of each content
ParseInputs ==
    { [fn |-> "parse", kind |-> k, content |-> c, mtime |-> t] :
        k \in Kinds, c \in ContentIds, t \in Times }

InitBytes ==
    /\ dir = << >>
    /\ result = << >>
    /\ scanned = "none"
    /\ gone = {}
    /\ syn = NoSyn
    /\ cls = None
    /\ buf \in DecompressInputs \cup StringInputs \cup IntInputs \cup CharacterInputs
                 \cup ParseInputs
    /\ ret = None
    /\ dstat = "ok"
    /\ cursor = 0
    /\ lastop = NoOp
    /\ entries = << >>
    /\ dirs = {}
    /\ calls = << >>

Decompress ==
    /\ buf.fn = "decompress"
    /\ ret = None
    /\ ret' = Some(_decompress_first_csdc(decompress_input(buf)))
    /\ UNCHANGED << dir, result, scanned, gone, syn, cls, buf, dstat, cursor, lastop, entries, dirs, calls >>

ExtractString ==
    /\ buf.fn = "string"
    /\ ret = None
    /\ ret' = Some(_extract_string_property(string_input(buf), buf.key))
    /\ UNCHANGED << dir, result, scanned, gone, syn, cls, buf, dstat, cursor, lastop, entries, dirs, calls >>

ExtractInt ==
    /\ buf.fn = "int"
    /\ ret = None
    /\ ret' = Some(_extract_int_property(int_input(buf), buf.key))
    /\ UNCHANGED << dir, result, scanned, gone, syn, cls, buf, dstat, cursor, lastop, entries, dirs, calls >>

ExtractCharacterName ==
    /\ buf.fn = "character_name"
    /\ ret = None
    /\ ret' = Some(_extract_character_name(character_input(buf)))
    /\ UNCHANGED << dir, result, scanned, gone, syn, cls, buf, dstat, cursor, lastop, entries, dirs, calls >>

\* parse_world_save / parse_character_save on the only file of a directory
ParseSave ==
    /\ buf.fn = "parse"
    /\ ret = None
    /\ LET file_path == MainName(prefix_of(buf.kind), AB)
           d == [n \in {file_path} |-> [content |-> buf.content, mtime |-> buf.mtime]]
       IN  ret' = Some(parse_save(buf.kind, d, {}, file_path))
    /\ UNCHANGED << dir, result, scanned, gone, syn, cls, buf, dstat, cursor, lastop, entries, dirs, calls >>

NextBytes == Decompress \/ ExtractString \/ ExtractInt \/ ExtractCharacterName \/ ParseSave

(***************************************************************************)
(* SpecCorrupt: scans of a quiescent directory that mixes damaged files    *)
(* with valid ones.                                                        *)
(***************************************************************************)
CorruptionNames ==
    { MainName(WORLD_PREFIX, AB), MainName(WORLD_PREFIX, CD), BackupName(WORLD_PREFIX, AB, 0),
      MainName(CHARACTER_PREFIX, AB), BackupName(CHARACTER_PREFIX, AB, 0),
      BadName(CHARACTER_PREFIX, CD, 0) }

CorruptionContents == CorruptContents \cup {"world_durin", "character_durin"}

NextCorrupt ==
    \/ \E name \in CorruptionNames, content \in CorruptionContents, mtime \in Times :
           WriteFile(name, content, mtime)
    \/ \E order \in Orders(DOMAIN dir) : ScanWorlds(order, {}, FALSE)
    \/ \E order \in Orders(DOMAIN dir) : ScanCharacters(order, {}, FALSE)
    \/ Discard

SpecCorrupt == Init /\ [][NextCorrupt]_vars

SpecBytes == InitBytes /\ [][NextBytes]_vars

(***************************************************************************)
(* SpecDir: scans of a path that is missing, is no directory, cannot be    *)
(* read, or is removed while the scan runs.                                *)
(***************************************************************************)
DirStates == {"ok", "missing", "not_a_directory", "permission_denied"}

\* Path.exists(): stat() succeeds on a file and on a directory without read
\* permission as well
exists(s) == s # "missing"

\* Path.iterdir(): None stands for the list of entries, otherwise the OSError
\* that os.listdir raises
iterdir_error(s) ==
    IF s = "ok" THEN None
    ELSE IF s = "missing" THEN Some("FileNotFoundError")
    ELSE IF s = "not_a_directory" THEN Some("NotADirectoryError")
    ELSE Some("PermissionError")

\* an exception that leaves the scan
Raised(error) == [raised |-> error]

\* lines 364-386 / 561-583: at_check is the state of the path when line 364
\* tests it, at_loop when the directory loop of line 384 starts (the glob of
\* get_world_saves in between yields nothing for a path it cannot list)
scan_path(kind, at_check, at_loop, d, order, g, ci) ==
    IF ~exists(at_check) THEN << >>
    ELSE IF iterdir_error(at_loop) # None THEN Raised(iterdir_error(at_loop)[1])
    ELSE scan_with_versions(kind, d, order, g, ci)

\* Another program removes the directory, puts a file in its place, takes
\* the read permission away, or restores it.
Replace(s) ==
    /\ scanned = "none"
    /\ s # dstat
    /\ s = "permission_denied" => dstat = "ok"
    /\ dstat = "permission_denied" => s = "ok"
    /\ dstat' = s
    /\ dir' = IF "permission_denied" \in {s, dstat} THEN dir ELSE << >>
    /\ UNCHANGED << result, scanned, gone, syn, cls, buf, ret, cursor, lastop, entries, dirs, calls >>

\* removed: the directory is removed between the test of line 364 and the
\* directory loop
ScanPath(kind, removed, order, g, ci) ==
    /\ scanned = "none"
    /\ \A n \in DOMAIN dir : is_world_name(n) <=> kind = "world"
    /\ removed => dstat = "ok"
    /\ result' = scan_path(kind, dstat, IF removed THEN "missing" ELSE dstat,
                           dir, order, g, ci)
    /\ scanned' = kind
    /\ gone' = g
    /\ dstat' = IF removed THEN "missing" ELSE dstat
    /\ dir' = IF removed THEN << >> ELSE dir
    /\ UNCHANGED << syn, cls, buf, ret, cursor, lastop, entries, dirs, calls >>

DirNames == { MainName(WORLD_PREFIX, AB), BackupName(WORLD_PREFIX, AB, 0),
              MainName(CHARACTER_PREFIX, AB), FreshName(CHARACTER_PREFIX, AB) }

NextDir ==
    \/ \E name \in DirNames, content \in Contents, mtime \in Times :
           dstat = "ok" /\ WriteFile(name, content, mtime)
    \/ \E s \in DirStates : Replace(s)
    \/ \E kind \in Kinds, removed \in BOOLEAN, order \in Orders(DOMAIN dir) :
           ScanPath(kind, removed, order, {}, FALSE)
    \/ Discard

SpecDir == Init /\ [][NextDir]_vars

(***************************************************************************)
(* SpecSearch: the while loop of _extract_character_name, one iteration    *)
(* per step.  buf holds the buffer the function was called with and, for   *)
(* every position of the buffer, what the loop body finds in the stream    *)
(* 60 bytes after it; cursor is the local pos, ret the value returned.     *)
(* The loop runs in the calling thread without waiting for anything: an    *)
(* iteration that can run does run (weak fairness).                        *)
(***************************************************************************)
MaxBlocks == 3

BlockKinds == {"header", "undecodable", "small", "named", "adjacent"}

\* the bytes of a block of each kind; "adjacent" is a bare marker directly
\* followed by the next one
block_bytes(kind) ==
    IF kind = "header" THEN container(CHARACTER_OFFSET, PSTR_BLOCK)
    ELSE IF kind = "undecodable"
    THEN CSDC \o zeros(CHARACTER_OFFSET - Len(CSDC)) \o << 120, 1, 1, 5, 0 >>
    ELSE IF kind = "small"
    THEN container(CHARACTER_OFFSET, zeros(4) \o SDCP \o zeros(8))
    ELSE IF kind = "named"
    THEN container(CHARACTER_OFFSET, sdcp_block(2, << 65, 0 >>))
    ELSE CSDC

RECURSIVE blocks_bytes(_)
blocks_bytes(kinds) ==
    IF kinds = << >> THEN << >> ELSE block_bytes(Head(kinds)) \o blocks_bytes(Tail(kinds))

\* lines 776-784 at a marker: does the stream inflate, is it the block with
\* the sub-marker, and which name does that block give
stream_at(data, csdc_pos) ==
    LET decompressed == zlib_decompress(bytes_from(data, csdc_pos + CHARACTER_OFFSET))
    IN  IF decompressed = None THEN [inflates |-> FALSE, sdcp |-> FALSE, name |-> None]
        ELSE IF has_sdcp(decompressed[1])
        THEN [inflates |-> TRUE, sdcp |-> TRUE, name |-> name_of_block(decompressed[1])]
        ELSE [inflates |-> TRUE, sdcp |-> FALSE, name |-> None]

\* the positions at which data.find(b"CSDC", pos) can stop
marker_positions(data) == { i \in 0..Len(data) : bytes_slice(data, i, i + Len(CSDC)) = CSDC }

search_buffer(data) ==
    [fn |-> "search", data |-> data,
     streams |-> [csdc_pos \in marker_positions(data) |-> stream_at(data, csdc_pos)]]

SearchInputs ==
    { search_buffer(GVAS \o zeros(4) \o blocks_bytes(kinds)) :
        kinds \in UNION { [1..n -> BlockKinds] : n \in 0..MaxBlocks } }

\* variant: the search resumes at the marker it has just examined
next_pos_at_marker(csdc_pos) == csdc_pos

\* "pos = csdc_pos + 4" of lines 780 and 811
next_pos(csdc_pos) == csdc_pos + 4

\* lines 776-811: what one iteration does with the marker found at csdc_pos
examine(stream, csdc_pos, pos) ==
    IF ~stream.inflates THEN [returned |-> None, pos |-> next_pos(csdc_pos)]
    ELSE IF stream.sdcp THEN [returned |-> Some(stream.name), pos |-> pos]
    ELSE [returned |-> None, pos |-> next_pos(csdc_pos)]

\* one iteration of the loop of lines 771-811 at position pos
iteration(b, csdc_pos, pos) ==
    IF csdc_pos = -1 THEN [returned |-> Some(None), pos |-> pos]
    ELSE examine(b.streams[csdc_pos], csdc_pos, pos)

after_iteration(b, pos) == iteration(b, find(b.data, CSDC, pos), pos)

InitSearch ==
    /\ dir = << >>
    /\ result = << >>
    /\ scanned = "none"
    /\ gone = {}
    /\ syn = NoSyn
    /\ cls = None
    /\ buf \in SearchInputs
    /\ ret = None
    /\ dstat = "ok"
    /\ cursor = 0
    /\ lastop = NoOp
    /\ entries = << >>
    /\ dirs = {}
    /\ calls = << >>

SearchIteration ==
    /\ buf.fn = "search"
    /\ ret = None
    /\ ret' = after_iteration(buf, cursor).returned
    /\ cursor' = after_iteration(buf, cursor).pos
    /\ UNCHANGED << dir, result, scanned, gone, syn, cls, buf, dstat, lastop, entries, dirs, calls >>

NextSearch == SearchIteration

SpecSearch == InitSearch /\ [][NextSearch]_vars

FairSpecSearch == SpecSearch /\ WF_vars(SearchIteration)

(***************************************************************************)
(* SpecGui: the version list of the main window.  result is the list the   *)
(* window shows (worlds_data), filled by _refresh_item_list; the buttons   *)
(* of a version row rename the file of the version and refresh the list.   *)
(***************************************************************************)
BAD_RANGE == 100

\* f"{version.file_path.name}.{i:02d}.bad"
bad_path(name, i) == name \o << "." >> \o Fmt2(i) \o DotBad

\* the for loop of lines 2218-2220: the first i in range(100) whose name is unused
RECURSIVE first_unused(_, _, _)
first_unused(d, name, i) ==
    IF i >= BAD_RANGE THEN None
    ELSE IF bad_path(name, i) \notin DOMAIN d THEN Some(i)
    ELSE first_unused(d, name, i + 1)

\* Path.rename: the entry moves to the new name with its content and times
rename(d, from, to) ==
    [n \in (DOMAIN d \ {from}) \cup {to} |-> IF n = to THEN d[from] ELSE d[n]]

\* what a handler leaves: the directory, and whether it refreshes the list
Done(d, refreshed, to) == [dir |-> d, refreshed |-> refreshed, to |-> to]

\* _mark_version_bad, lines 2205-2232
_mark_version_bad(d, file_path) ==
    IF file_path \notin DOMAIN d THEN Done(d, FALSE, None)
    ELSE IF first_unused(d, file_path, 0) = None THEN Done(d, FALSE, None)
    ELSE Done(rename(d, file_path, bad_path(file_path, first_unused(d, file_path, 0)[1])),
              TRUE, Some(bad_path(file_path, first_unused(d, file_path, 0)[1])))

\* parent / f"{base_name}.sav" with base_name = filename.split('.')[0]
new_path(file_path) == BaseNameTable[file_path] \o DotSav

\* _restore_as_main, lines 2161-2203
_restore_as_main(d, file_path) ==
    IF file_path \notin DOMAIN d THEN Done(d, FALSE, None)
    ELSE IF new_path(file_path) \in DOMAIN d THEN Done(d, FALSE, None)
    ELSE Done(rename(d, file_path, new_path(file_path)), TRUE, Some(new_path(file_path)))

\* the list after a handler: rescanned when the handler refreshes it
shown_after(done, order) ==
    IF done.refreshed
    THEN get_worlds_with_versions(done.dir, order, {}, FALSE)
    ELSE result

\* the record of an operation on the file of version j of the entity i shown
\* with what the operation before it did (prev)
Operation(op, i, j, done) ==
    [op |-> op, file |-> result[i].versions[j].file_path, to |-> done.to,
     before |-> dir, entity |-> result[i],
     prev |-> IF lastop.op = "none" THEN [op |-> "none", to |-> None, names |-> {}]
              ELSE [op |-> lastop.op, to |-> lastop.to, names |-> DOMAIN lastop.before]]

\* order: the enumeration order of the refresh
Handled(op, i, j, done) ==
    \E order \in Orders(DOMAIN done.dir) :
        /\ dir' = done.dir
        /\ result' = shown_after(done, order)
        /\ lastop' = Operation(op, i, j, done)
        /\ UNCHANGED << scanned, gone, syn, cls, buf, ret, dstat, cursor, entries, dirs, calls >>

\* the "Mark Bad" button, shown on a row whose version is the primary
\* (_on_version_selected, line 2065)
MarkBad(i, j) ==
    /\ scanned = "world"
    /\ i \in 1..Len(result)
    /\ j \in 1..Len(result[i].versions)
    /\ result[i].versions[j].version_type = "main"
    /\ Handled("mark_bad", i, j, _mark_version_bad(dir, result[i].versions[j].file_path))

\* the green "Restore" button, shown on the other rows of an item that has
\* no primary (_on_version_selected, lines 2033 and 2084)
RestoreAsMain(i, j) ==
    /\ scanned = "world"
    /\ i \in 1..Len(result)
    /\ j \in 1..Len(result[i].versions)
    /\ result[i].versions[j].version_type # "main"
    /\ main_file(result[i]) = None
    /\ Handled("restore", i, j, _restore_as_main(dir, result[i].versions[j].file_path))

\* the primary files of a base identity in a directory
primaries(names, base) ==
    { n \in names : ClassifyTable["world"][n].version_type = "main" /\ BaseNameTable[n] = base }

one_primary_each(names) ==
    \A n \in names : Cardinality(primaries(names, BaseNameTable[n])) <= 1

GuiContents(n) ==
    IF n = MainName(WORLD_PREFIX, AB) THEN {"world_durin", "bad_signature"} ELSE {"world_durin"}

GuiDirs ==
    UNION { { [n \in S |-> [content |-> c[n], mtime |-> 1]] :
                c \in { f \in [S -> {"world_durin", "bad_signature"}] :
                            \A n \in S : f[n] \in GuiContents(n) } } :
            S \in { T \in SUBSET StartGui : Cardinality(T) <= MaxGuiFiles /\ one_primary_each(T) } }

InitGui ==
    /\ dir \in GuiDirs
    /\ result = << >>
    /\ scanned = "none"
    /\ gone = {}
    /\ syn = NoSyn
    /\ cls = None
    /\ buf = NoBuf
    /\ ret = None
    /\ dstat = "ok"
    /\ cursor = 0
    /\ lastop = NoOp
    /\ entries = << >>
    /\ dirs = {}
    /\ calls = << >>

NextGui ==
    \/ \E order \in Orders(DOMAIN dir) : ScanWorlds(order, {}, FALSE)
    \/ \E i, j \in 1..MaxGuiFiles : MarkBad(i, j)
    \/ \E i, j \in 1..MaxGuiFiles : RestoreAsMain(i, j)
    \/ Discard

SpecGui == InitGui /\ [][NextGui]_vars

(***************************************************************************)
(* SpecIndex: one BackupIndexManager.  entries is _entries (file name ->   *)
(* display name), dirs the directories that exist in the category          *)
(* directory, calls the calls made so far.                                 *)
(***************************************************************************)
MaxCalls == 3

InvalidChars == {"<", ">", ":", "\"", "/", "\\", "|", "?", "*"}

\* result.strip(' .')
RECURSIVE lstrip(_)
lstrip(s) == IF s # << >> /\ Head(s) \in {" ", "."} THEN lstrip(Tail(s)) ELSE s

RECURSIVE rstrip(_)
rstrip(s) ==
    IF s # << >> /\ s[Len(s)] \in {" ", "."} THEN rstrip(SubSeq(s, 1, Len(s) - 1)) ELSE s

UnknownDir == << "U", "n", "k", "n", "o", "w", "n" >>

or_unknown(stripped) == IF stripped = << >> THEN UnknownDir ELSE stripped

\* _sanitize_dirname, lines 102-124
_sanitize_dirname(name) ==
    or_unknown(rstrip(lstrip([i \in 1..Len(name) |->
                                 IF name[i] \in InvalidChars THEN "_" ELSE name[i]])))

\* str(counter)
RECURSIVE str_int(_)
str_int(n) ==
    IF n < 10 THEN << Digits[n + 1] >> ELSE str_int(n \div 10) \o << Digits[(n % 10) + 1] >>

\* _is_directory_in_use, lines 215-229
_is_directory_in_use(e, safe_name, exclude_filename) ==
    \E f \in DOMAIN e : f # exclude_filename /\ _sanitize_dirname(e[f]) = safe_name

\* the while loop of lines 159-163 and 190-194; backup_dir is always
\* category_dir / safe_name
RECURSIVE unused_dir(_, _, _, _, _)
unused_dir(e, d, safe_name, counter, filename) ==
    IF safe_name \in d /\ _is_directory_in_use(e, safe_name, filename)
    THEN unused_dir(e, d, safe_name \o << "_" >> \o str_int(counter), counter + 1, filename)
    ELSE safe_name

\* self._entries[filename] = BackupIndexEntry(filename, name)
with_entry(e, filename, name) ==
    [f \in DOMAIN e \cup {filename} |-> IF f = filename THEN name ELSE e[f]]

Returned(e, d, backup_dir) == [entries |-> e, dirs |-> d, returned |-> backup_dir]

\* lines 196-203: old_dir.rename(new_dir) when old_dir exists (rename_ok:
\* the platform lets the rename onto an existing directory succeed),
\* new_dir.mkdir(exist_ok=True) otherwise
moved(d, old_dir, new_dir, rename_ok) ==
    IF old_dir \notin d THEN d \cup {new_dir}
    ELSE IF new_dir \notin d \/ rename_ok THEN (d \ {old_dir}) \cup {new_dir}
    ELSE d

\* lines 154-172: the file name has no entry
new_entry(e, d, filename, name, backup_dir) ==
    Returned(with_entry(e, filename, name), d \cup {backup_dir}, backup_dir)

\* lines 184-213: the display name of the entry has changed
renamed_entry(e, d, filename, name, old_dir, new_dir, rename_ok) ==
    Returned(with_entry(e, filename, name), moved(d, old_dir, new_dir, rename_ok), new_dir)

\* get_backup_directory, lines 137-213
get_backup_directory(e, d, filename, name, rename_ok) ==
    IF filename \notin DOMAIN e
    THEN new_entry(e, d, filename, name,
                   unused_dir(e, d, _sanitize_dirname(name), 1, filename))
    ELSE IF e[filename] = name
    THEN Returned(e, d \cup {_sanitize_dirname(e[filename])}, _sanitize_dirname(e[filename]))
    ELSE renamed_entry(e, d, filename, name, _sanitize_dirname(e[filename]),
                       unused_dir(e, d, _sanitize_dirname(name), 1, filename),
                       rename_ok)

IndexFiles == {"MW_A", "MW_B", "MW_C"}

\* "X?" and "X*" give the same directory name, " ." gives "Unknown"
IndexNames == { << "X" >>, << "X", "?" >>, << "X", "*" >>, << " ", "." >> }

Call(filename, name, out) ==
    /\ entries' = out.entries
    /\ dirs' = out.dirs
    /\ calls' = Append(calls, [filename |-> filename, display_name |-> name,
                               returned |-> out.returned,
                               registers |-> filename \notin DOMAIN entries])
    /\ UNCHANGED << dir, result, scanned, gone, syn, cls, buf, ret, dstat, cursor, lastop >>

GetBackupDirectory(filename, name, rename_ok) ==
    /\ Len(calls) < MaxCalls
    /\ Call(filename, name,
            get_backup_directory(entries, dirs, filename, name, rename_ok))

InitIndex ==
    /\ dir = << >>
    /\ result = << >>
    /\ scanned = "none"
    /\ gone = {}
    /\ syn = NoSyn
    /\ cls = None
    /\ buf = NoBuf
    /\ ret = None
    /\ dstat = "ok"
    /\ cursor = 0
    /\ lastop = NoOp
    /\ entries = << >>
    /\ dirs = {}
    /\ calls = << >>

NextIndex ==
    \E filename \in IndexFiles, name \in IndexNames, rename_ok \in BOOLEAN :
        GetBackupDirectory(filename, name, rename_ok)

SpecIndex == InitIndex /\ [][NextIndex]_vars

(***************************************************************************)
(* SpecNames: scans of the files of one world whose name field is present, *)
(* absent, empty or malformed, or whose block does not decode.             *)
(***************************************************************************)
NamedFiles ==
    { MainName(WORLD_PREFIX, AB), FreshName(WORLD_PREFIX, AB), BackupName(WORLD_PREFIX, AB, 0) }

NameContents ==
    {"world_durin", "world_unnamed", "world_empty", "malformed_field", "bad_signature",
     "bad_stream"}

InitNames ==
    /\ dir \in UNION { [S -> [content : NameContents, mtime : {1}]] : S \in SUBSET NamedFiles }
    /\ result = << >>
    /\ scanned = "none"
    /\ gone = {}
    /\ syn = NoSyn
    /\ cls = None
    /\ buf = NoBuf
    /\ ret = None
    /\ dstat = "ok"
    /\ cursor = 0
    /\ lastop = NoOp
    /\ entries = << >>
    /\ dirs = {}
    /\ calls = << >>

NextNames ==
    \/ \E order \in Orders(DOMAIN dir) : ScanWorlds(order, {}, FALSE)
    \/ Discard

SpecNames == InitNames /\ [][NextNames]_vars

(***************************************************************************)
(* SpecViews: the derived views of the entities of a scan.  The directory  *)
(* holds versions of one world in every combination, enumerated in every   *)
(* order.                                                                  *)
(***************************************************************************)
ViewNames ==
    { MainName(WORLD_PREFIX, AB), FreshName(WORLD_PREFIX, AB),
      BackupName(WORLD_PREFIX, AB, 0), BackupName(WORLD_PREFIX, AB, 1),
      BadName(WORLD_PREFIX, AB, 0) }

InitViews ==
    /\ dir \in { [n \in S |-> [content |-> "world_durin", mtime |-> 1]] : S \in SUBSET ViewNames }
    /\ result = << >>
    /\ scanned = "none"
    /\ gone = {}
    /\ syn = NoSyn
    /\ cls = None
    /\ buf = NoBuf
    /\ ret = None
    /\ dstat = "ok"
    /\ cursor = 0
    /\ lastop = NoOp
    /\ entries = << >>
    /\ dirs = {}
    /\ calls = << >>

\* a caller reads the three views of the i-th entity of the snapshot
DeriveViews(i) ==
    /\ scanned # "none"
    /\ buf = NoBuf
    /\ i \in 1..Len(result)
    /\ buf' = [fn |-> "views", entity |-> i]
    /\ ret' = Some([main_file |-> main_file(result[i]),
                    fresh_file |-> fresh_file(result[i]),
                    backup_files |-> backup_files(result[i])])
    /\ UNCHANGED << dir, result, scanned, gone, syn, cls, dstat, cursor, lastop, entries, dirs, calls >>

NextViews ==
    \/ \E order \in Orders(DOMAIN dir) : ScanWorlds(order, {}, FALSE)
    \/ \E i \in 1..MaxFiles : DeriveViews(i)
    \/ Discard

SpecViews == InitViews /\ [][NextViews]_vars

(***************************************************************************)
(* Vocabulary of the properties.                                           *)
(***************************************************************************)
\* the files of the directory that the scan of a kind gives a role
Recognized(kind) == { f \in DOMAIN dir : ClassifyTable[kind][f].version_type # "ignored" }

\* the base identity of an entity: info.base_name
entity_base(entity) == BaseNameTable[entity.info.file_path]

\* the file paths attached to an entity
attached(entity) == { entity.versions[j].file_path : j \in 1..Len(entity.versions) }

\* how often a file occurs in the version lists of the result
occurrences(f) ==
    Cardinality({ ij \in (1..Len(result)) \X (1..MaxFiles + 1) :
                    /\ ij[2] <= Len(result[ij[1]].versions)
                    /\ result[ij[1]].versions[ij[2]].file_path = f })

RECURSIVE total_versions(_)
total_versions(r) == IF r = << >> THEN 0 ELSE Len(Head(r).versions) + total_versions(Tail(r))

\* the base identities that have an entity derived from a parsed primary
primary_keys(kind) ==
    { BaseNameTable[f] : f \in { n \in DOMAIN dir \cap GlobTable[kind][FALSE] :
                                   parse_save(kind, dir, {}, n) # None } }

\* the files the scan buffers for base identity b
buffered(kind, b) ==
    { f \in DOMAIN dir : /\ ClassifyTable[kind][f].version_type \in {"fresh", "backup", "bad"}
                         /\ ClassifyTable[kind][f].base_name = b }

\* the base identities whose files are buffered as orphans
orphan_bases(kind) ==
    { ClassifyTable[kind][f].base_name :
        f \in { n \in DOMAIN dir :
                  ClassifyTable[kind][n].version_type \in {"fresh", "backup", "bad"} } }
    \ primary_keys(kind)

\* the entity parser decodes a non-empty name from file f during the scan
decodes(kind, f) ==
    /\ parse_save(kind, dir, gone, f) # None
    /\ truthy(parsed_name(kind, parse_save(kind, dir, gone, f)[1]))

(***************************************************************************)
(* C1  No file loss: after a scan every file with a recognized role is in  *)
(* the version list of exactly one entity, the version lists hold exactly  *)
(* as many versions as there are such files, and there are exactly as many *)
(* entities as distinct base identities among them -- also when a primary  *)
(* file cannot be parsed.                                                  *)
(***************************************************************************)
C1_NoFileLoss ==
    scanned # "none" =>
        /\ \A f \in Recognized(scanned) : occurrences(f) = 1
        /\ total_versions(result) = Cardinality(Recognized(scanned))
        /\ Len(result) = Cardinality({ BaseNameTable[f] : f \in Recognized(scanned) })

(***************************************************************************)
(* C2  Base identity is the sole grouping key: no two returned entities    *)
(* have the same base identity and every version of an entity has a file   *)
(* name whose segment before the first '.' is the entity's base identity.  *)
(***************************************************************************)
C2_BaseIdentityGroups ==
    scanned # "none" =>
        /\ \A i, j \in 1..Len(result) :
               i # j => entity_base(result[i]) # entity_base(result[j])
        /\ \A i \in 1..Len(result) : \A f \in attached(result[i]) :
               base_name(f) = entity_base(result[i])

\* an entity holding two files of one base identity with different roles
C2_Witness ==
    /\ scanned # "none"
    /\ \E i \in 1..Len(result) :
           /\ Len(result[i].versions) = 2
           /\ result[i].versions[1].version_type # result[i].versions[2].version_type

(***************************************************************************)
(* C3  Orphan recovery: a directory that holds only one numbered-backup    *)
(* file with decodable content yields exactly one entity, whose version    *)
(* list is exactly that file with role backup, whose primary view is       *)
(* absent and whose name is the one decoded from the file.                 *)
(***************************************************************************)
written_name(content) ==
    IF content \in {"world_durin", "character_durin"} THEN Some(Durin)
    ELSE IF content \in {"world_moria", "character_moria"} THEN Some(Moria)
    ELSE None

C3_Case ==
    /\ scanned # "none"
    /\ gone = {}
    /\ Cardinality(DOMAIN dir) = 1
    /\ \A f \in DOMAIN dir :
           /\ ClassifyTable[scanned][f].version_type = "backup"
           /\ truthy(written_name(dir[f].content))

C3_OrphanRecovery ==
    C3_Case =>
        \A f \in DOMAIN dir :
            /\ Len(result) = 1
            /\ Len(result[1].versions) = 1
            /\ result[1].versions[1].file_path = f
            /\ result[1].versions[1].version_type = "backup"
            /\ main_file(result[1]) = None
            /\ display_name(scanned, result[1].info) = written_name(dir[f].content)[1]

C3_Witness == C3_Case /\ Len(result) = 1

(***************************************************************************)
(* C4  Orphan identity preference order: the identity of an orphan entity  *)
(* is that of the first decodable file in the order template, numbered     *)
(* backups by ascending ordinal, marked-bad files -- for every order in    *)
(* which the directory enumerates its entries.                             *)
(***************************************************************************)
claimed_rank(version) ==
    IF version.version_type = "fresh" THEN 0
    ELSE IF version.version_type = "backup" THEN 1 + version.backup_number[1]
    ELSE 2 + MAX_ORDINAL

claimed_order(versions) ==
    values_of(list_sort([i \in 1..Len(versions) |->
                            [k |-> claimed_rank(versions[i]), v |-> versions[i]]],
                        FALSE))

C4_PreferenceOrder ==
    scanned # "none" =>
        \A i \in 1..Len(result) :
            entity_base(result[i]) \notin primary_keys(scanned) =>
                LET found == first_decodable(scanned, dir, gone,
                                             claimed_order(result[i].versions))
                IN  truthy(found.name) =>
                        display_name(scanned, result[i].info) = found.name[1]

(***************************************************************************)
(* C5  Orphan fallback name: when no buffered file of an orphan group      *)
(* decodes a name, the scan still returns one entity for the group, with   *)
(* all buffered files as its versions and the base identity as its name.   *)
(***************************************************************************)
C5_Undecodable(b) ==
    /\ b \in orphan_bases(scanned)
    /\ \A f \in buffered(scanned, b) : ~decodes(scanned, f)

C5_OrphanFallback ==
    scanned # "none" =>
        \A b \in orphan_bases(scanned) :
            C5_Undecodable(b) =>
                /\ Cardinality({ i \in 1..Len(result) : entity_base(result[i]) = b }) = 1
                /\ \A i \in 1..Len(result) :
                       entity_base(result[i]) = b =>
                           /\ attached(result[i]) = buffered(scanned, b)
                           /\ Len(result[i].versions) = Cardinality(buffered(scanned, b))
                           /\ display_name(scanned, result[i].info) = b

\* a scanned orphan group of two files, none of which decodes
C5_Witness ==
    /\ scanned # "none"
    /\ \E b \in orphan_bases(scanned) :
           /\ C5_Undecodable(b)
           /\ Cardinality(buffered(scanned, b)) = 2

(***************************************************************************)
(* C6  Result ordering: the returned list is sorted by non-increasing      *)
(* modification time of the entity, and every entity without a modification*)
(* time comes after every entity that has one.                             *)
(***************************************************************************)
C6_NewestFirst ==
    scanned # "none" =>
        \A i, j \in 1..Len(result) :
            i < j =>
                LET a == result[i].info.modified_time
                    b == result[j].info.modified_time
                IN  /\ (a # None /\ b # None) => a[1] >= b[1]
                    /\ a = None => b = None

\* an entity with a modification time followed by one without
C6_Witness ==
    /\ scanned # "none"
    /\ Len(result) = 2
    /\ result[1].info.modified_time # None
    /\ result[2].info.modified_time = None

(***************************************************************************)
(* C7  Classification round-trip: for every file name synthesized from the *)
(* grammar in its canonical spelling, with any id the primary rule         *)
(* accepts, the classifier recovers the base identity <prefix><id>, the    *)
(* role and the ordinal it was synthesized from.                           *)
(***************************************************************************)
round_trips ==
    cls[1] = [version_type |-> syn.role,
              base_name |-> syn.prefix \o syn.id,
              backup_number |-> syn.num]

is_canonical(s) == ~s.lower_prefix /\ ~s.upper_suffix

primary_accepts(prefix, id) == classify(prefix, MainName(prefix, id)).version_type = "main"

C7_RoundTrip ==
    (cls # None /\ is_canonical(syn) /\ primary_accepts(syn.prefix, syn.id)) => round_trips

\* C7 restricted to the ids the patterns accept: the same for every id that is a non-empty string of
\* hexadecimal digits (of either case).
is_hex_id(id) == Len(id) > 0 /\ \A i \in 1..Len(id) : id[i] \in
    {"0", "1", "2", "3", "4", "5", "6", "7", "8", "9",
     "A", "B", "C", "D", "E", "F", "a", "b", "c", "d", "e", "f"}

C7_RoundTripHex ==
    (cls # None /\ is_canonical(syn) /\ is_hex_id(syn.id)) => round_trips

\* a marked-bad name with a lower-case hexadecimal id and a two-digit ordinal
C7_Witness ==
    /\ cls # None
    /\ is_canonical(syn)
    /\ syn.id = << "a", "f" >>
    /\ syn.role = "bad"
    /\ syn.num = Some(42)
    /\ round_trips

(***************************************************************************)
(* C8  Classification is case-insensitive: the role of a file name does    *)
(* not change when the case of its prefix or of its suffix is changed.     *)
(***************************************************************************)
C8_CaseInsensitive ==
    cls # None =>
        cls[1].version_type = classify(syn.prefix, synthesize(canonical(syn))).version_type

(***************************************************************************)
(* C9  For every file name classified as primary, the key it is attached   *)
(* under (the name minus ".sav") is the base identity of the entity parsed *)
(* from it (the name up to its first '.'), so a parsed primary file is     *)
(* attached to the entity of its base identity.                            *)
(***************************************************************************)
C9_PrimaryAttached ==
    scanned # "none" =>
        \A f \in DOMAIN dir :
            (/\ ClassifyTable[scanned][f].version_type = "main"
             /\ parse_save(scanned, dir, gone, f) # None) =>
                /\ ClassifyTable[scanned][f].base_name = base_name(f)
                /\ \E i \in 1..Len(result) :
                       /\ entity_base(result[i]) = base_name(f)
                       /\ f \in attached(result[i])

(***************************************************************************)
(* C10  A file that carries the prefix but matches none of the four suffix *)
(* rules is ignored: it is attached to no entity, and a directory that     *)
(* holds only such files yields no entity.                                 *)
(***************************************************************************)
C10_UnrecognizedIgnored ==
    scanned # "none" =>
        /\ \A f \in DOMAIN dir \ Recognized(scanned) : occurrences(f) = 0
        /\ Recognized(scanned) = {} => result = << >>

(***************************************************************************)
(* C11  Offset probing order: the decoder returns the inflation at the     *)
(* smallest of the offsets 24, 36, 48, 52, 56, 60, 64 past the first       *)
(* block marker that passes the acceptance checks; when two offsets would  *)
(* both be accepted the result is the one from the smaller offset.         *)
(***************************************************************************)
CandidateOffsets == {24, 36, 48, 52, 56, 60, 64}

\* the streams that inflate to more than ten bytes holding the secondary marker
Genuine == {"A", "B"}

accepted_offsets(b) ==
    IF b.marker
    THEN { o \in DOMAIN b.streams \cap CandidateOffsets : b.streams[o] \in Genuine }
    ELSE {}

C11_AscendingOrder ==
    (buf.fn = "decompress" /\ ret # None /\ accepted_offsets(buf) # {}) =>
        LET smallest == CHOOSE o \in accepted_offsets(buf) :
                            \A p \in accepted_offsets(buf) : o <= p
        IN  ret[1] = Some(Payload[buf.streams[smallest]])

(***************************************************************************)
(* C12  No false positive from the decoder: a returned buffer is the       *)
(* inflation of a stream at one of the candidate offsets after the first   *)
(* marker, is longer than the minimum length and contains the secondary    *)
(* marker; the decoder returns "no decodable block" when the marker is     *)
(* absent or no candidate offset holds such a stream.                      *)
(***************************************************************************)
has_secondary_marker(x) ==
    \E i \in 1..(Len(x) - 2) : x[i] = 83 /\ x[i + 1] = 71 /\ x[i + 2] = 95

C12_NoFalsePositive ==
    (buf.fn = "decompress" /\ ret # None) =>
        /\ ret[1] # None =>
               /\ Len(ret[1][1]) > 10
               /\ has_secondary_marker(ret[1][1])
               /\ buf.marker
               /\ \E o \in DOMAIN buf.streams \cap CandidateOffsets :
                      buf.streams[o] # "broken" /\ Payload[buf.streams[o]] = ret[1][1]
        /\ accepted_offsets(buf) = {} => ret[1] = None

\* every stream of the file inflates, none is genuine, and nothing is returned
C12_Witness ==
    /\ buf.fn = "decompress"
    /\ buf.marker
    /\ DOMAIN buf.streams = {24, 60}
    /\ buf.streams[24] = "short"
    /\ buf.streams[60] = "unmarked"
    /\ ret = Some(None)

(***************************************************************************)
(* C13  Sign-encoded string round-trip: a field written as key, 0, tag 6,  *)
(* length = UTF-8 byte length + 1, the UTF-8 bytes and one 0 terminator,   *)
(* or with length = -(UTF-16 code units + 1), the UTF-16LE bytes and a     *)
(* two-byte terminator, is extracted as exactly the text written (empty,   *)
(* ASCII or multi-byte): exactly one terminator is stripped.               *)
(***************************************************************************)
C13_RoundTrip ==
    (buf.fn = "string" /\ ret # None /\ buf.tag = 6 /\ buf.cut = 0) =>
        ret[1] = Some(buf.s)

\* a wide field whose text has a character outside the basic plane
C13_Witness ==
    /\ buf.fn = "string"
    /\ buf.tag = 6
    /\ buf.cut = 0
    /\ buf.wide
    /\ buf.s = << 233, 128512 >>
    /\ buf.before # << >>
    /\ ret = Some(Some(<< 233, 128512 >>))

(***************************************************************************)
(* C14  Corruption guard on string length: whenever the declared length    *)
(* of a string field has magnitude above 100 the extractor yields "not     *)
(* present" or at most 100 characters, for the name-keyed world fields as  *)
(* well as for the fixed-offset character name.                            *)
(***************************************************************************)
abs(n) == IF n < 0 THEN -n ELSE n

guarded(r) == r = None \/ Len(r[1]) <= 100

C14_LengthGuard ==
    /\ (buf.fn = "string" /\ ret # None /\ buf.tag = 6 /\ buf.cut = 0
            /\ abs(true_length(buf.s, buf.wide)) > 100) => guarded(ret[1])
    /\ (buf.fn = "character_name" /\ ret # None /\ buf.named /\ ~buf.zero
            /\ abs(true_length(buf.s, buf.wide)) > 100) => guarded(ret[1])

(***************************************************************************)
(* C15  Out-of-range reads yield "not present": when the key is found but  *)
(* the type tag, the length word or the declared payload of a string or    *)
(* integer field extends past the end of the buffer, the extractor returns *)
(* "not present", never a partial value.                                   *)
(***************************************************************************)
C15_OutOfRange ==
    (buf.fn \in {"string", "int"} /\ ret # None /\ buf.cut > 0) => ret[1] = None

(***************************************************************************)
(* C16  Integer field decoding: after the key, one zero byte and tag 2 the *)
(* extractor returns the next four bytes as an unsigned 32-bit             *)
(* little-endian integer (0..2^32-1, here as its 16-bit halves); for any   *)
(* other tag it returns "not present", and so does the string extractor    *)
(* for any tag other than 6.                                               *)
(***************************************************************************)
is_value_of(v, four) ==
    /\ v.lo \in 0..65535
    /\ v.hi \in 0..65535
    /\ four = << v.lo % 256, v.lo \div 256, v.hi % 256, v.hi \div 256 >>

C16_IntegerField ==
    /\ (buf.fn = "int" /\ ret # None /\ buf.cut = 0) =>
           IF buf.tag = 2 THEN ret[1] # None /\ is_value_of(ret[1][1], buf.four)
           ELSE ret[1] = None
    /\ (buf.fn = "string" /\ ret # None /\ buf.tag # 6) => ret[1] = None

\* the largest value: 2^32 - 1
C16_Witness ==
    /\ buf.fn = "int"
    /\ buf.tag = 2
    /\ buf.cut = 0
    /\ buf.four = << 255, 255, 255, 255 >>
    /\ ret = Some(Some([hi |-> 65535, lo |-> 65535]))

(***************************************************************************)
(* C17  Character-name fixed-offset path: the name is read from the block  *)
(* that carries the sub-marker at offsets 4..7, with the signed length at  *)
(* offset 29 and the text at offset 33 (UTF-8, length - 1 bytes, when the  *)
(* length is positive; UTF-16LE, 2 * |length| - 2 bytes, when negative);   *)
(* length 0 or magnitude above 100 yields "no name"; a first block without *)
(* the sub-marker is skipped and the later block is examined.              *)
(***************************************************************************)
C17_Case == buf.fn = "character_name" /\ ret # None /\ buf.first # "small"

C17_CharacterName ==
    C17_Case =>
        IF ~buf.named THEN ret[1] = None
        ELSE IF buf.zero THEN ret[1] = None
        ELSE IF abs(true_length(buf.s, buf.wide)) > 100 THEN ret[1] = None
        ELSE ret[1] = Some(buf.s)

\* a name of the largest accepted length in the second block of the file
C17_Witness ==
    /\ C17_Case
    /\ buf.first = "header"
    /\ buf.named
    /\ ~buf.zero
    /\ buf.wide
    /\ Len(buf.s) = 99
    /\ ret = Some(Some(buf.s))

(***************************************************************************)
(* C18  Character parser failure policy: for a character file that starts  *)
(* with the signature but in which no container block can be decoded      *)
(* (marker absent, inflation fails, or no block with the sub-marker),      *)
(* parse_character_save reports the file as unparseable, as the world      *)
(* parser does for a world file with no decodable block.                   *)
(***************************************************************************)
NoDecodableBlock == {"no_marker", "bad_stream", "character_unnamed"}

C18_SameFailurePolicy ==
    (buf.fn = "parse" /\ ret # None /\ buf.content \in NoDecodableBlock) => ret[1] = None

(***************************************************************************)
(* C19  Corruption scenario: a primary-named file that begins with the     *)
(* signature but holds no block marker is reported as unparseable by the   *)
(* entity parser, and the version scan of a directory that holds only this *)
(* file returns an empty list.                                             *)
(***************************************************************************)
C19_Case ==
    /\ scanned # "none"
    /\ Cardinality(DOMAIN dir) = 1
    /\ \A f \in DOMAIN dir :
           /\ ClassifyTable[scanned][f].version_type = "main"
           /\ dir[f].content = "no_marker"

C19_TruncatedFile ==
    C19_Case =>
        /\ \A f \in DOMAIN dir : parse_save(scanned, dir, gone, f) = None
        /\ result = << >>

(***************************************************************************)
(* C20  Corrupt-file isolation: in a directory that mixes corrupt files    *)
(* with valid ones, the entity of every valid primary file is in the       *)
(* result, with the identity and the version list it has when the corrupt  *)
(* files of other base identities are absent.                              *)
(***************************************************************************)
valid_primary(f) ==
    /\ ClassifyTable[scanned][f].version_type = "main"
    /\ dir[f].content \in {"world_durin", "character_durin"}

corrupt_others(p) ==
    { f \in DOMAIN dir : dir[f].content \in CorruptContents
                            /\ BaseNameTable[f] # BaseNameTable[p] }

without(S) == [n \in DOMAIN dir \ S |-> dir[n]]

entity_of(r, p) == { r[i] : i \in { j \in 1..Len(r) : r[j].info.file_path = p } }

C20_Isolation ==
    scanned # "none" =>
        \A p \in DOMAIN dir :
            valid_primary(p) =>
                /\ entity_of(result, p) # {}
                /\ \E order \in Orders(DOMAIN dir \ corrupt_others(p)) :
                       entity_of(result, p) =
                           entity_of(scan_with_versions(scanned, without(corrupt_others(p)),
                                                        order, {}, FALSE), p)

\* a valid primary next to a file of another identity whose inflation fails
C20_Witness ==
    /\ scanned = "world"
    /\ \E p \in DOMAIN dir :
           /\ valid_primary(p)
           /\ \E f \in corrupt_others(p) : dir[f].content = "bad_stream"
           /\ \E e \in entity_of(result, p) :
                  Len(e.versions) = 1 /\ e.info.world_name = Durin

(***************************************************************************)
(* C21  A path that does not exist, or that exists but cannot be           *)
(* enumerated (no read permission, not a directory, removed between the    *)
(* existence test and the enumeration), makes the version scan return an   *)
(* empty list; the scan does not raise.                                    *)
(* After a scan the path is in a state other than "ok" exactly in these    *)
(* cases: nothing changes the path while a snapshot is held.               *)
(***************************************************************************)
C21_EmptyResult == scanned # "none" /\ dstat # "ok" => result = << >>

(***************************************************************************)
(* C22  For an entity built from a directory that holds a parseable        *)
(* primary, a template and several numbered backups: the primary view is   *)
(* the .sav file, the template view is the .sav.fresh file, and the backup *)
(* view holds exactly the numbered backups in ascending ordinal order (00  *)
(* before 01), in whatever order the directory was enumerated; a           *)
(* marked-bad version is in none of the three views.                       *)
(***************************************************************************)
paths_of(versions) == [j \in 1..Len(versions) |-> versions[j].file_path]

C22_Case ==
    /\ buf.fn = "views" /\ ret # None /\ scanned = "world"
    /\ { MainName(WORLD_PREFIX, AB), FreshName(WORLD_PREFIX, AB),
         BackupName(WORLD_PREFIX, AB, 0), BackupName(WORLD_PREFIX, AB, 1) } \subseteq DOMAIN dir

C22_DerivedViews ==
    C22_Case =>
        /\ ret[1].main_file # None
        /\ ret[1].main_file[1].file_path = MainName(WORLD_PREFIX, AB)
        /\ ret[1].fresh_file # None
        /\ ret[1].fresh_file[1].file_path = FreshName(WORLD_PREFIX, AB)
        /\ paths_of(ret[1].backup_files)
               = << BackupName(WORLD_PREFIX, AB, 0), BackupName(WORLD_PREFIX, AB, 1) >>
        /\ \A j \in 1..Len(ret[1].backup_files) :
               /\ ret[1].backup_files[j] \in
                      { result[buf.entity].versions[k] : k \in 1..Len(result[buf.entity].versions) }
               /\ ret[1].backup_files[j].version_type = "backup"
        /\ ret[1].main_file[1].version_type = "main"
        /\ ret[1].fresh_file[1].version_type = "fresh"

\* the directory holds a marked-bad file as well and was enumerated with
\* backup 01 before backup 00
C22_Witness ==
    /\ C22_Case
    /\ BadName(WORLD_PREFIX, AB, 0) \in DOMAIN dir
    /\ \E j, k \in 1..Len(result[buf.entity].versions) :
           /\ j < k
           /\ result[buf.entity].versions[j].file_path = BackupName(WORLD_PREFIX, AB, 1)
           /\ result[buf.entity].versions[k].file_path = BackupName(WORLD_PREFIX, AB, 0)
    /\ \E k \in 1..Len(result[buf.entity].versions) :
           result[buf.entity].versions[k].version_type = "bad"

(***************************************************************************)
(* C23  Every version of a snapshot has a backup ordinal if and only if    *)
(* its role is numbered backup or marked bad; the ordinal is an integer    *)
(* in 0..99 and equals the two digits of the file name; primary and        *)
(* template versions have none.                                            *)
(***************************************************************************)
SnapshotVersions ==
    IF scanned = "none" THEN {}
    ELSE UNION { { result[i].versions[j] : j \in 1..Len(result[i].versions) } : i \in 1..Len(result) }

\* the two characters before the last extension of a file name, as a number
TwoDigitsOf(name) ==
    10 * digit_value(name[Len(name) - 5]) + digit_value(name[Len(name) - 4])

C23_WellFormed ==
    \A v \in SnapshotVersions :
        /\ v.version_type \in {"main", "fresh", "backup", "bad"}
        /\ v.backup_number # None <=> v.version_type \in {"backup", "bad"}
        /\ v.backup_number # None =>
               /\ v.backup_number[1] \in 0..MAX_ORDINAL
               /\ v.backup_number[1] = TwoDigitsOf(v.file_path)

C23_Witness ==
    /\ \E v \in SnapshotVersions : v.version_type = "backup" /\ v.backup_number = Some(1)
    /\ \E v \in SnapshotVersions : v.version_type = "bad" /\ v.backup_number = Some(0)

(***************************************************************************)
(* C24  Reproducible snapshot: a second version scan of the unchanged      *)
(* directory returns a result equal to the snapshot held (same entities,   *)
(* same identity fields, same versions, same order), in whatever order     *)
(* the directory enumerates its entries on the second call.                *)
(***************************************************************************)
\* the entities of a result in their order, each with its identity fields
\* and the set of its versions
as_snapshot(r) ==
    [i \in 1..Len(r) |->
        [info |-> r[i].info,
         versions |-> { r[i].versions[j] : j \in 1..Len(r[i].versions) }]]

C24_Reproducible ==
    (scanned # "none" /\ gone = {}) =>
        \A order \in Orders(DOMAIN dir) :
            as_snapshot(scan_with_versions(scanned, dir, order, {}, FALSE)) = as_snapshot(result)

\* the same for directories in which no two files share a modification time
C24_ReproducibleDistinctTimes ==
    (\A f, h \in DOMAIN dir : f # h => dir[f].mtime # dir[h].mtime) => C24_Reproducible

(***************************************************************************)
(* C25  The character-name block search terminates on every buffer: each   *)
(* iteration of its loop either returns or moves the search position       *)
(* strictly past the marker occurrence it has just examined, so the        *)
(* search returns after finitely many iterations.                          *)
(***************************************************************************)
examined_marker == find(buf.data, CSDC, cursor)

C25_Terminates ==
    /\ <>(ret # None)
    /\ [][ret' = None => cursor' > examined_marker]_vars

\* the search has passed three markers, two of them adjacent, and has
\* returned what the function returns for the whole buffer
C25_Witness ==
    /\ buf.fn = "search"
    /\ Cardinality({ m \in marker_positions(buf.data) : m < cursor }) >= 3
    /\ \E m \in marker_positions(buf.data) : m + Len(CSDC) \in marker_positions(buf.data)
    /\ ret = Some(_extract_character_name(buf.data))

(***************************************************************************)
(* C26  Marking the primary file of an entity bad renames <base>.sav to    *)
(* <base>.sav.NN.bad, NN the smallest ordinal of 00..99 for which no such  *)
(* file exists; no existing file is overwritten, and nothing changes when  *)
(* all 100 names are taken.  A scan afterwards returns the same base       *)
(* identity as one entity, without a primary version, with a marked-bad    *)
(* version of ordinal NN, and with all its other versions unchanged.       *)
(***************************************************************************)
marked_name(file, n) == file \o << "." >> \o Fmt2(n) \o DotBad

free_ordinals(names, file) == { n \in 0..MAX_ORDINAL : marked_name(file, n) \notin names }

smallest(S) == CHOOSE n \in S : \A m \in S : n <= m

version_set(entity) == { entity.versions[k] : k \in 1..Len(entity.versions) }

renamed_only(before, after, from, to) ==
    /\ to \notin DOMAIN before
    /\ DOMAIN after = (DOMAIN before \ {from}) \cup {to}
    /\ after[to] = before[from]
    /\ \A n \in DOMAIN before \ {from} : after[n] = before[n]

still_one_entity(entity, file, to, nn) ==
    /\ Cardinality({ i \in 1..Len(result) : entity_base(result[i]) = entity_base(entity) }) = 1
    /\ \A i \in 1..Len(result) :
           entity_base(result[i]) = entity_base(entity) =>
               /\ main_file(result[i]) = None
               /\ \E v \in version_set(result[i]) :
                      /\ v.file_path = to
                      /\ v.version_type = "bad"
                      /\ v.backup_number = Some(nn)
                      /\ version_set(result[i]) \ {v}
                             = { w \in version_set(entity) : w.file_path # file }

C26_Case == scanned = "world" /\ lastop.op = "mark_bad"

C26_MarkBadRescan ==
    C26_Case =>
        IF free_ordinals(DOMAIN lastop.before, lastop.file) = {}
        THEN dir = lastop.before
        ELSE /\ renamed_only(lastop.before, dir, lastop.file,
                             marked_name(lastop.file,
                                         smallest(free_ordinals(DOMAIN lastop.before, lastop.file))))
             /\ still_one_entity(lastop.entity, lastop.file,
                                 marked_name(lastop.file,
                                             smallest(free_ordinals(DOMAIN lastop.before, lastop.file))),
                                 smallest(free_ordinals(DOMAIN lastop.before, lastop.file)))

\* the same for the worlds whose id is a hexadecimal string
C26_MarkBadRescanHex ==
    (C26_Case /\ lastop.file = MainName(WORLD_PREFIX, AB)) => C26_MarkBadRescan

\* the primary of a world that has a template and a marked-bad file 00 was
\* marked bad and got ordinal 01
C26_WitnessHex ==
    /\ C26_Case
    /\ lastop.file = MainName(WORLD_PREFIX, AB)
    /\ lastop.to = Some(BadName(WORLD_PREFIX, AB, 1))
    /\ FreshName(WORLD_PREFIX, AB) \in DOMAIN dir

(***************************************************************************)
(* C27  Restoring a template, numbered-backup or marked-bad version as the *)
(* primary renames it to <base>.sav (base: the file name up to its first   *)
(* '.') only when no <base>.sav exists and leaves the directory unchanged  *)
(* otherwise; after any sequence of mark-bad and promote operations each   *)
(* base identity has at most one primary file; mark-bad followed by the    *)
(* promotion of the resulting .bad file restores the original set of file  *)
(* names.                                                                  *)
(***************************************************************************)
primary_of(file) == base_name(file) \o DotSav

C27_Case == lastop.op = "restore"

never_overwrites ==
    C27_Case =>
        IF primary_of(lastop.file) \in DOMAIN lastop.before
        THEN dir = lastop.before
        ELSE renamed_only(lastop.before, dir, lastop.file, primary_of(lastop.file))

primary_files(base) ==
    { n \in DOMAIN dir : ClassifyTable["world"][n].version_type = "main" /\ base_name(n) = base }

at_most_one_primary ==
    \A n \in DOMAIN dir : Cardinality(primary_files(base_name(n))) <= 1

undoes_mark_bad ==
    (C27_Case /\ lastop.prev.op = "mark_bad" /\ lastop.prev.to = Some(lastop.file)) =>
        DOMAIN dir = lastop.prev.names

C27_PromoteNeverOverwrites == never_overwrites /\ at_most_one_primary /\ undoes_mark_bad

\* the same without the second part
C27_WithoutUniqueness == never_overwrites /\ undoes_mark_bad

\* the whole statement for the directories without a primary whose id has a dot
C27_PromoteDotFree ==
    (WORLD_PREFIX \o AB \o << "." >> \o CD \o DotSav \notin DOMAIN dir) => C27_PromoteNeverOverwrites

\* a promotion refused because the primary exists, and one that undoes a mark-bad
C27_WitnessRefused ==
    /\ C27_Case
    /\ primary_of(lastop.file) \in DOMAIN lastop.before
    /\ lastop.to = None

C27_WitnessUndone ==
    /\ C27_Case
    /\ lastop.prev.op = "mark_bad"
    /\ lastop.prev.to = Some(lastop.file)
    /\ lastop.to = Some(MainName(WORLD_PREFIX, AB))

(***************************************************************************)
(* C28  Backup directories are not shared between base identities: after   *)
(* any sequence of get_backup_directory calls on one manager, two          *)
(* different file names whose display names sanitize to the same directory *)
(* name have never been given the same directory, and a repeated call with *)
(* the same file name and display name returns the directory returned by   *)
(* the call that first registered that file name.                          *)
(***************************************************************************)
\* the latest call for a file name, and the directory it was given
latest(filename) ==
    CHOOSE a \in 1..Len(calls) :
        /\ calls[a].filename = filename
        /\ \A b \in 1..Len(calls) : calls[b].filename = filename => b <= a

given(filename) == calls[latest(filename)].returned

not_shared ==
    \A f, g \in DOMAIN entries :
        (f # g /\ _sanitize_dirname(entries[f]) = _sanitize_dirname(entries[g])) =>
            given(f) # given(g)

repeated_same ==
    \A a, b \in 1..Len(calls) :
        (/\ a < b
         /\ calls[a].registers
         /\ calls[b].filename = calls[a].filename
         /\ calls[b].display_name = calls[a].display_name) =>
            calls[b].returned = calls[a].returned

C28_NotShared == not_shared /\ repeated_same

(***************************************************************************)
(* C29  Every entity returned by a version scan has a non-empty version    *)
(* list: an entity derived from a parsed primary has that primary file     *)
(* attached as its version of role primary, and an entity synthesized by   *)
(* orphan recovery has at least one version and none of role primary.      *)
(***************************************************************************)
\* the entity was synthesized by orphan recovery: its identity comes from a
\* buffered template, backup or marked-bad file
is_orphan_entity(entity) ==
    ClassifyTable[scanned][entity.info.file_path].version_type \in {"fresh", "backup", "bad"}

C29_NonEmptyVersions ==
    scanned # "none" =>
        \A i \in 1..Len(result) :
            /\ Len(result[i].versions) >= 1
            /\ IF is_orphan_entity(result[i])
               THEN main_file(result[i]) = None
               ELSE /\ main_file(result[i]) # None
                    /\ main_file(result[i])[1].file_path = result[i].info.file_path

\* the same for the directories all of whose names are <prefix><id> followed
\* by one of the four suffixes
C29_NonEmptyVersionsPlain ==
    scanned # "none" =>
        ((\A f \in DOMAIN dir : /\ f \in Recognized(scanned)
                                 /\ BaseNameTable[f] = ClassifyTable[scanned][f].base_name)
            => C29_NonEmptyVersions)

(***************************************************************************)
(* C30  Every world entity returned by a scan has a non-empty world name:  *)
(* the decoded name when the name field of the file its identity comes     *)
(* from decodes to a non-empty string, "Unknown World" when the block of   *)
(* that file decodes but the name field is absent, undecodable or empty,   *)
(* and the base identity when the entity is an orphan none of whose files  *)
(* decode.                                                                 *)
(***************************************************************************)
\* the block of a file of this content decodes
block_decodes(content) == content \in {"world_durin", "world_unnamed", "world_empty", "malformed_field"}

claimed_name(entity) ==
    IF block_decodes(dir[entity.info.file_path].content)
    THEN IF written_name(dir[entity.info.file_path].content) # None
         THEN written_name(dir[entity.info.file_path].content)[1]
         ELSE UnknownWorld
    ELSE entity_base(entity)

C30_Case == scanned = "world" /\ gone = {}

C30_NameNeverEmpty ==
    C30_Case =>
        \A i \in 1..Len(result) :
            /\ result[i].info.world_name # EmptyStr
            /\ result[i].info.world_name = claimed_name(result[i])
            /\ ~block_decodes(dir[result[i].info.file_path].content) =>
                   /\ main_file(result[i]) = None
                   /\ \A f \in attached(result[i]) : ~block_decodes(dir[f].content)

\* an entity named by the placeholder because its name field is empty, and
\* an orphan named by its base identity
C30_Witness ==
    /\ C30_Case
    /\ \E i \in 1..Len(result) :
           /\ dir[result[i].info.file_path].content = "world_empty"
           /\ result[i].info.world_name = UnknownWorld

C30_WitnessOrphan ==
    /\ C30_Case
    /\ \E i \in 1..Len(result) :
           /\ Len(result[i].versions) = 2
           /\ \A f \in attached(result[i]) : ~block_decodes(dir[f].content)
           /\ result[i].info.world_name = WORLD_PREFIX \o AB

====
